---------------------------- MODULE Spec2Model ----------------------------
(***************************************************************************)
(* A model of the decompression core of vivisect/dissect:                  *)
(*   - dissect/algos/huffman.py   HuffTree (canonical codes, trie, decode) *)
(*   - dissect/algos/inflate.py   Inflate (RFC1951 block decoding)         *)
(*   - dissect/algos/mszip.py     MsZip ("CK" framed DEFLATE per CFDATA)   *)
(*   - dissect/algos/lzx.py       Lzx (window, blocks, frame alignment)    *)
(*                                                                         *)
(* Each subsystem has its own specification (SpecHuff, SpecMsZip, ...)     *)
(* over its own group of variables; the variables of the other groups are  *)
(* held at their idle values.                                              *)
(***************************************************************************)
EXTENDS Integers, Sequences, FiniteSets, TLC

VARIABLES
    \* ---- HuffTree driver (huffman.py) ----
    h_pc,        \* "new" | "booked" | "loaded" | "raised" | "decoded"
    h_symbits,   \* the symbol -> code width table handed to initCodeBook
    h_book,      \* the codebook returned by initCodeBook
    h_tree,      \* the HuffTree object: [root, codebysym]
    h_fed,       \* symbols whose codes were written to the decoder's input
    h_out,       \* symbols yielded by iterHuffSyms
    h_end        \* decoder position when the input ran out: "root"|"inner"|"off"

huffVars == <<h_pc, h_symbits, h_book, h_tree, h_fed, h_out, h_end>>

VARIABLES
    \* ---- Inflate driver (inflate.py): one call of getFixHuffBlock ----
    inf_pc,      \* "new" | "block" | "returned" | "raised"
    inf_items,   \* what the input encodes: literals and (length, distance) pairs
    inf_bits,    \* the bits of the BitStream handed to getFixHuffBlock
    inf_d,       \* the call: [off, out, buff, res] (buff is Inflate.buff)
    inf_last     \* the last round of the symbol loop: what it did (op, mlen,
                 \* dist) and Inflate.buff and out as they were before it

infVars == <<inf_pc, inf_items, inf_bits, inf_d, inf_last>>

VARIABLES
    \* ---- MsZip driver (mszip.py): the generator MsZip().decompBlock(iterblk) ----
    mz_pc,       \* "start" | "block" | "yielded" | "raised" | "stopped"
    mz_byts,     \* frame.ab of the CFDATA being decoded
    mz_bits,     \* bits: the bit sequence of BitStream(byts[2:], order='little')
    mz_off,      \* bits consumed from it
    mz_final,    \* final
    mz_msblock,  \* msblock
    mz_buff,     \* Inflate.buff
    mz_err,      \* the exception that left the generator, "" if none
    mz_last,     \* the bytes of the last yield
    mz_yields,   \* number of yields so far
    \* what the iterator handed out, and what DEFLATE says it decodes to
    mz_nfr,      \* number of CFDATA taken from iterblk
    mz_desc,     \* the CFDATA being decoded: [sig, blocks]
    mz_nblk,     \* number of blocks of it decoded so far
    mz_hist,     \* the plaintext of the stream before this CFDATA
    mz_wf,       \* every earlier CFDATA was well formed
    mz_prevok,   \* every earlier yield was the plaintext of its CFDATA
    mz_emit      \* every byte the blocks have returned so far, in order

mzVars == <<mz_pc, mz_byts, mz_bits, mz_off, mz_final, mz_msblock, mz_buff, mz_err,
            mz_last, mz_yields, mz_nfr, mz_desc, mz_nblk, mz_hist, mz_wf,
            mz_prevok, mz_emit>>

VARIABLES
    \* ---- Lzx driver (lzx.py) ----
    lz_pc,       \* where the generator in use stands: "new" | "header" | "chunk" |
                 \* "yielded" | "stopped" | "dec" | "decyield" | "decfinal" |
                 \* "decdone" | "raised"
    lz_src,      \* what the bit stream in use reads
    lz_o,        \* the Lzx object: its attributes by name
    lz_bs,       \* bits: the BitStream in use
    lz_trees,    \* lzx.mtree, lzx.ltree, lzx.atree
    lz_d,        \* decompBlock: btype, blen, out, run; remains of decUncomp;
                 \* flen is len(frame)
    lz_g,        \* decVerbatim / decAligned: remains, run, maxrun
    lz_ret,      \* the bytes of the last yield
    lz_err,      \* the exception that left the generator, "" if none
    lz_total,    \* number of bytes decoded since construction
    lz_last      \* what the last round of the decoding loop did

lzVars == <<lz_pc, lz_src, lz_o, lz_bs, lz_trees, lz_d, lz_g, lz_ret, lz_err,
            lz_total, lz_last>>

VARIABLES
    \* ---- CabLab driver (formats/cab.py): one call of openCabFile ----
    cab_pc,      \* "idle", "new", "loop", "after", "returned", "raised"
    cab_in,      \* the cabinet behind the CabLab
    cab_f,       \* <<the CFFILE found for the name asked for>>, or << >>
    cab_uoff,    \* uoff of iterCabData
    cab_k,       \* number of CFDATA iterCabData has read
    cab_eof,     \* whether deco has reached the end of its deflate stream
    cab_uncomp,  \* the local uncomp: << >> while unbound, else <<bytes>>
    cab_fd,      \* the bytes written to fd
    cab_ndec,    \* number of calls of deco.decompress
    cab_err      \* the exception raised

cabVars == <<cab_pc, cab_in, cab_f, cab_uoff, cab_k, cab_eof, cab_uncomp, cab_fd,
             cab_ndec, cab_err>>

VARIABLES
    \* ---- bitlab driver (bitlab.py): bits(byts, order) and cast on it ----
    bit_pc,      \* "idle" | "new" | "open" | "drained" | "raised"
    bit_byts,    \* byts
    bit_order,   \* order
    bit_off,     \* number of bits the generator has yielded
    bit_casts,   \* the calls of cast so far: [bitsize, bord, val]
    bit_len,     \* len(list(bits)), None before list is called
    bit_err      \* the exception raised

bitVars == <<bit_pc, bit_byts, bit_order, bit_off, bit_casts, bit_len, bit_err>>

VARIABLES
    \* ---- KeyCache driver (common.py) ----
    kc_pc,       \* "idle" | "new" | "live"
    kc_self,     \* the KeyCache: [lookmeth, items], items being the dict itself
    kc_hits,     \* number of calls of lookmeth, by key
    kc_reads,    \* number of reads cache[key], by key
    kc_last      \* the last read: [key, ret, called]

kcVars == <<kc_pc, kc_self, kc_hits, kc_reads, kc_last>>

VARIABLES
    \* ---- FAT32 driver (formats/fat32.py): the cluster chain layer ----
    fat_pc,      \* "idle" | "live"
    fat_fs,      \* the FAT32 object: [fat, clusters]
    fat_want,    \* the data last stored under each start cluster in use
    fat_hist,    \* the calls so far: [op, n], n the length of the data given
    fat_ret      \* the last call: <<[op, p, res, data, deleted]>>

fatVars == <<fat_pc, fat_fs, fat_want, fat_hist, fat_ret>>

VARIABLES
    \* ---- dynamic block driver (inflate.py): one call of getDynHuffBlock ----
    dyn_pc,      \* "idle" | "new" | "lens" | "trees" | "returned" | "raised"
    dyn_prog,    \* what the input encodes: [hdist, items, data]
    dyn_bits,    \* the bits of the BitStream handed to getDynHuffBlock
    dyn_h,       \* hlit, hdist and len_tree
    dyn_c,       \* the loop over code_lens: [i, val, vlen, off, code_lens, res]
    dyn_ret,     \* what the call returned: <<out>>, and Inflate.buff after it
    dyn_err      \* the exception raised

dynVars == <<dyn_pc, dyn_prog, dyn_bits, dyn_h, dyn_c, dyn_ret, dyn_err>>

VARIABLES
    \* ---- length array driver (lzx.py): calls of LzxHuffTree.updateLengths ----
    upd_pc,      \* "idle" | "new" | "loop" | "returned" | "raised"
    upd_tree,    \* which tree of Lzx the object is: "mtree" | "ltree"
    upd_progs,   \* what the bits of each call so far encode
    upd_bits,    \* the bits the BitStream of this call yields
    upd_args,    \* start and stop of this call
    upd_old,     \* self.lens when this call began
    upd_lens,    \* self.lens
    upd_c,       \* the call: [ptree, i, off]
    upd_err      \* the exception raised

updVars == <<upd_pc, upd_tree, upd_progs, upd_bits, upd_args, upd_old, upd_lens,
             upd_c, upd_err>>

VARIABLES
    \* ---- match copy driver (lzx.py): one match copied into the window ----
    cp_pc,       \* "idle" | "new" | "copied" | "raised"
    cp_o,        \* the Lzx object, its window in pages
    cp_old,      \* the Lzx object before the copy
    cp_m,        \* the match: [moff, mlen]
    cp_err       \* the exception raised

cpVars == <<cp_pc, cp_o, cp_old, cp_m, cp_err>>

decVars == <<huffVars, infVars, mzVars, lzVars>>

\* the variables of the drivers that follow the four decoders
restVars == <<cabVars, bitVars, kcVars, fatVars, dynVars, updVars, cpVars>>

\* what the actions of one of these drivers leave alone
notCab == <<decVars, bitVars, kcVars, fatVars, dynVars, updVars, cpVars>>
notBit == <<decVars, cabVars, kcVars, fatVars, dynVars, updVars, cpVars>>
notKc == <<decVars, cabVars, bitVars, fatVars, dynVars, updVars, cpVars>>
notFat == <<decVars, cabVars, bitVars, kcVars, dynVars, updVars, cpVars>>
notDyn == <<decVars, cabVars, bitVars, kcVars, fatVars, updVars, cpVars>>
notUpd == <<decVars, cabVars, bitVars, kcVars, fatVars, dynVars, cpVars>>
notCp == <<decVars, cabVars, bitVars, kcVars, fatVars, dynVars, updVars>>

vars == <<huffVars, infVars, mzVars, lzVars, restVars>>

-----------------------------------------------------------------------------
(* Bounds of the model *)

\* number of symbols of the generated length tables
NSym == 4
\* largest code width of the generated length tables
MaxBits == 2
\* number of codes written to the decoder's input
MaxDecode == 2
\* number of literals and matches of a generated Huffman block
MaxItems == 3
\* largest match length and distance of a generated Huffman block
MaxMatchLen == 3
MaxMatchDist == 4
\* number of CFDATA blocks the iterator hands to MsZip.decompBlock
MaxFrames == 2
\* longest payload of a generated stored block
MaxPayload == 2
\* longest short block of a generated LZX stream
LzSmall == 2
\* LZX blocks end up to this many bytes before the end of a frame
LzGap == 2
\* number of CFDATA of a folder, number of CFFILE of a cabinet, and the
\* number of plaintext bytes of the smaller CFDATA
MaxCfData == 2
MaxCfFiles == 2
CabBlock == 50
\* bytes handed to bitlab.bits, calls of cast on one generator, and the
\* widest cast
MaxBitBytes == 3
MaxCasts == 2
MaxCastBits == 5
\* reads of one KeyCache
MaxReads == 4
\* FAT32: clusters of the file system, bytes of a cluster, clusters of the
\* data of one call, data runs in use at once, calls
FatClusters == 7
ClusterSize == 2
MaxDataClusters == 2
MaxFatFiles == 1
MaxFatOps == 3
\* dynamic blocks: entries left before the end of the code lengths when the
\* last run begins, and literals of the block data
DynGap == 4
MaxDynLits == 2
\* length arrays: calls of updateLengths on one tree, and entries left
\* before stop when the last run of a call begins
MaxUpdCalls == 2
\* match copies: how near the ends of the window the write position is and
\* how small the offset, and the longest match
CopyNear == 3
MaxCopyLen == 5
UpdGap == 2

-----------------------------------------------------------------------------
(* Generic helpers *)

None == -1

Shl(x, n) == x * (2 ^ n)
Shr(x, n) == x \div (2 ^ n)

Max(S) == CHOOSE x \in S : \A y \in S : y <= x

\* F applied to the value of v, v being evaluated once
Bind(v, F(_)) == CHOOSE y \in {F(x) : x \in {v}} : TRUE

RECURSIVE Concat(_)
Concat(ss) == IF ss = << >> THEN << >> ELSE Head(ss) \o Concat(Tail(ss))

\* all sequences over S of length lo..hi
SeqsOf(S, lo, hi) == UNION { [1..n -> S] : n \in lo..hi }

\* A long byte string is held in a state variable as its pages of 256 bytes:
\* Paged(s) are the pages of s, Flat(p) the string of the pages p,
\* PagedLen(p) its length and PagedAt(p, i) its i-th byte
Paged(s) ==
    [r \in 1..((Len(s) + 255) \div 256) |->
        SubSeq(s, 256 * (r - 1) + 1, IF 256 * r < Len(s) THEN 256 * r ELSE Len(s))]
RECURSIVE FlatRange(_, _, _)
FlatRange(p, a, b) ==
    IF a > b THEN << >>
    ELSE IF a = b THEN p[a]
    ELSE FlatRange(p, a, (a + b) \div 2) \o FlatRange(p, ((a + b) \div 2) + 1, b)
Flat(p) == FlatRange(p, 1, Len(p))
PagedLen(p) == IF p = << >> THEN 0 ELSE 256 * (Len(p) - 1) + Len(p[Len(p)])
PagedAt(p, i) == p[((i - 1) \div 256) + 1][((i - 1) % 256) + 1]

-----------------------------------------------------------------------------
(* huffman.py *)

\* bitvals(valu, bits): the low `bits` bits of valu, most significant first
bitvals(valu, bits) == [k \in 1..bits |-> Shr(valu, bits - k) % 2]

\* HuffTree.__init__: the root node holds no symbol and has no children.
\* A node is named by its path from the root: the root is 1 and the child of
\* node n along bit b is 2n+b.  root[n] is node n's symbol slot (node[0]).
Root == 1
Child(n, bit) == 2 * n + bit
NewHuffTree == [root |-> (Root :> None), codebysym |-> << >>]

\* Python truth value of a symbol slot: None and 0 are both false
Truthy(v) == v # None /\ v # 0

\* HuffTree.addHuffNode: the nodes on the path are created as needed; the
\* node conflict test is the truth value of the slot; the slot is written
\* before the symbol conflict test.
addHuffNode(tree, sym, bits, code) ==
    LET path   == [k \in 0..bits |-> (2 ^ k) + (Shr(code, bits - k) % (2 ^ k))]
        node   == path[bits]
        made   == tree.root @@ [n \in {path[k] : k \in 0..bits} |-> None]
    IN  IF Truthy(made[node])
        THEN [tree |-> [root |-> made, codebysym |-> tree.codebysym],
              err |-> "node conflict"]
        ELSE IF sym \in DOMAIN tree.codebysym
        THEN [tree |-> [root |-> (node :> sym) @@ made,
                        codebysym |-> tree.codebysym],
              err |-> "sym conflict"]
        ELSE [tree |-> [root |-> (node :> sym) @@ made,
                        codebysym |-> (sym :> <<bits, code>>) @@ tree.codebysym],
              err |-> "none"]

\* HuffTree.loadCodeBook: addHuffNode for every entry in order; the first
\* exception ends the loading and leaves the tree as built so far.  The loop
\* over entries lo..hi is unfolded by halves: first half, then second half.
RECURSIVE loadFrom(_, _, _, _)
loadFrom(tree, codebook, lo, hi) ==
    IF lo > hi THEN [tree |-> tree, err |-> "none"]
    ELSE IF lo = hi
    THEN addHuffNode(tree, codebook[lo][1], codebook[lo][2], codebook[lo][3])
    ELSE Bind(loadFrom(tree, codebook, lo, (lo + hi) \div 2),
              LAMBDA r : IF r.err # "none" THEN r
                         ELSE loadFrom(r.tree, codebook, ((lo + hi) \div 2) + 1, hi))

loadCodeBook(tree, codebook) ==
    Bind(codebook, LAMBDA book : loadFrom(tree, book, 1, Len(book)))

\* (mutant of nbitsOf: the statement nbits[0] = 0 is left out)
nbitsOf_countZero(symbits, bits) ==
    Cardinality({i \in 1..Len(symbits) : symbits[i] = bits})

\* HuffTree.initCodeBook, first loop: nbits[bits] counts the symbols of each
\* width, then nbits[0] = 0.
nbitsOf(symbits, bits) ==
    IF bits = 0 THEN 0
    ELSE Cardinality({i \in 1..Len(symbits) : symbits[i] = bits})

\* maxbits = max(nbits.keys()); the key 0 is always present
maxbitsOf(symbits) == Max({0} \cup {symbits[i] : i \in 1..Len(symbits)})

\* (mutant of codebaseOf: the shift "<< 1" is left out)
codebaseOf_noShift(symbits) ==
    LET cb[b \in 0..maxbitsOf(symbits)] ==
            IF b = 0 THEN 0 ELSE cb[b - 1] + nbitsOf(symbits, b - 1)
    IN  cb @@ << >>

\* second loop: codebase[0] = 0, codebase[b+1] = (codebase[b] + nbits[b]) << 1
codebaseOf(symbits) ==
    LET cb[b \in 0..maxbitsOf(symbits)] ==
            IF b = 0 THEN 0 ELSE Shl(cb[b - 1] + nbitsOf(symbits, b - 1), 1)
    IN  cb @@ << >>

\* third loop: symbols in ascending order take codebase[bits] and bump it;
\* a symbol of width 0 gets no entry.  st is [codebase, codebook]; the loop
\* over symbols lo..hi is unfolded by halves: first half, then second half.
RECURSIVE assignCodes(_, _, _, _)
assignCodes(symbits, lo, hi, st) ==
    IF lo > hi THEN st
    ELSE IF lo = hi
    THEN LET bits == symbits[lo + 1]
             code == st.codebase[bits]
         IN  [codebase |-> (bits :> code + 1) @@ st.codebase,
              codebook |-> IF bits # 0
                           THEN Append(st.codebook, <<lo, bits, code>>)
                           ELSE st.codebook]
    ELSE Bind(assignCodes(symbits, lo, (lo + hi) \div 2, st),
              LAMBDA r : assignCodes(symbits, ((lo + hi) \div 2) + 1, hi, r))

initCodeBook(symbits) ==
    Bind(symbits,
         LAMBDA sb : Bind([codebase |-> codebaseOf(sb), codebook |-> << >>],
                          LAMBDA st : assignCodes(sb, 0, Len(sb) - 1, st).codebook))

\* HuffTree.iterHuffSyms over a finite bit sequence: walks from the root,
\* yields the symbol of every node whose slot is not None and restarts at
\* the root.  Result: the symbols yielded, and where the walk stood when the
\* bits ran out ("root", "inner") or "off" when it stepped on a missing child
\* (OffHuffTree).
RECURSIVE huffWalk(_, _, _, _, _)
huffWalk(tree, bits, i, node, out) ==
    IF i > Len(bits)
    THEN [syms |-> out, end |-> IF node = Root THEN "root" ELSE "inner"]
    ELSE LET step == Child(node, bits[i])
         IN  IF step \notin DOMAIN tree.root
             THEN [syms |-> out, end |-> "off"]
             ELSE IF tree.root[step] # None
             THEN huffWalk(tree, bits, i + 1, Root, Append(out, tree.root[step]))
             ELSE huffWalk(tree, bits, i + 1, step, out)

iterHuffSyms(tree, bits) == huffWalk(tree, bits, 1, Root, << >>)

-----------------------------------------------------------------------------
(* bitlab.py: BitStream(byts, order='little') as used by inflate.py/mszip.py *)

\* getBitGen with bord = LSB: the bits of each byte, least significant first
lsbBits(byts) == [k \in 1..(8 * Len(byts)) |->
                     Shr(byts[((k - 1) \div 8) + 1], (k - 1) % 8) % 2]

\* BitStream.cast(num, 'little') at bit offset off: the first bit read is the
\* least significant.  ok is FALSE when next() runs off the end of the
\* stream (StopIteration leaves cast).
castLittle(bits, off, num) ==
    IF off + num > Len(bits) THEN [ok |-> FALSE, val |-> 0, off |-> Len(bits)]
    ELSE LET v[i \in 0..num] ==
                 IF i = 0 THEN 0 ELSE v[i - 1] + Shl(bits[off + i], i - 1)
         IN  [ok |-> TRUE, val |-> v[num], off |-> off + num]

\* one next() on HuffTree.iterHuffSyms(bits) reading the stream from off:
\* "sym" with the symbol, "off" for OffHuffTree, "eof" when the bits ran out
RECURSIVE huffNextFrom(_, _, _, _)
huffNextFrom(tree, bits, off, node) ==
    IF off >= Len(bits) THEN [res |-> "eof", sym |-> None, off |-> off]
    ELSE LET step == Child(node, bits[off + 1])
         IN  IF step \notin DOMAIN tree.root
             THEN [res |-> "off", sym |-> None, off |-> off + 1]
             ELSE IF tree.root[step] # None
             THEN [res |-> "sym", sym |-> tree.root[step], off |-> off + 1]
             ELSE huffNextFrom(tree, bits, off + 1, step)

huffNext(tree, bits, off) == huffNextFrom(tree, bits, off, Root)

-----------------------------------------------------------------------------
(* inflate.py *)

COPY_LEN == 16
REP_BIG_LEN == 17
REP_TINY_LEN == 18
END_BLOCK == 256
MAX_MATCH == 285
MAX_HIST == 32768

\* Python list slice seq[start:stop] with negative and out-of-range indexes
pyIndex(n, i) == IF i < 0 THEN (IF n + i < 0 THEN 0 ELSE n + i)
                 ELSE (IF i > n THEN n ELSE i)
pySlice(seq, start, stop) ==
    LET a == pyIndex(Len(seq), start)
        b == pyIndex(Len(seq), stop)
    IN  IF b <= a THEN << >> ELSE SubSeq(seq, a + 1, b)
\* seq[-n:] for n >= 1
pyTail(seq, n) == pySlice(seq, -n, Len(seq))

\* Inflate._initFixedTrees
fixSymbits == [s \in 1..288 |-> IF s <= 144 THEN 8 ELSE IF s <= 256 THEN 9
                                ELSE IF s <= 280 THEN 7 ELSE 8]
fix_lits == loadCodeBook(NewHuffTree, initCodeBook(fixSymbits)).tree
fix_dists == loadCodeBook(NewHuffTree, initCodeBook([s \in 1..32 |-> 5])).tree

\* Inflate._getMatchLen(s, bits)
getMatchLen(s, bits, off) ==
    IF s < 257 \/ s > 285 THEN [res |-> "InflateError", val |-> 0, off |-> off]
    ELSE IF s <= 264 THEN [res |-> "ok", val |-> s - 254, off |-> off]
    ELSE IF s <= 284
    THEN LET xbits == (s - 261) \div 4
             x     == castLittle(bits, off, xbits)
         IN  IF ~x.ok THEN [res |-> "StopIteration", val |-> 0, off |-> x.off]
             ELSE [res |-> "ok", off |-> x.off,
                   val |-> Shl(((s - 265) % 4) + 4, xbits) + 3 + x.val]
    ELSE [res |-> "ok", val |-> 258, off |-> off]

\* Inflate._getDist(s, bits)
getDist(s, bits, off) ==
    IF s > 29 THEN [res |-> "InflateError", val |-> 0, off |-> off]
    ELSE IF s <= 3 THEN [res |-> "ok", val |-> s + 1, off |-> off]
    ELSE LET xbits == (s \div 2) - 1
             x     == castLittle(bits, off, xbits)
         IN  IF ~x.ok THEN [res |-> "StopIteration", val |-> 0, off |-> x.off]
             ELSE [res |-> "ok", off |-> x.off,
                   val |-> Shl((s % 2) + 2, xbits) + 1 + x.val]

\* Inflate._updateHistBuff
updateHistBuff(buff) == pyTail(buff, MAX_HIST)

\* (mutant of copyMatch: the source of the copy is not re-read after each
\*  round, so a match longer than its distance does not repeat)
copyMatch_noOverlap(out, buff, mlen, dist) ==
    LET src == pySlice(pyTail(buff, dist), 0, mlen)
    IN  [out |-> out \o src, buff |-> buff \o src]

\* Inflate._decHuffBlock, the match copy (lines 220-229): whole rounds of the
\* last dist bytes while mlen > dist, then the remainder
RECURSIVE copyMatch(_, _, _, _)
copyMatch(out, buff, mlen, dist) ==
    IF mlen > dist
    THEN copyMatch(out \o pyTail(buff, dist), buff \o pyTail(buff, dist),
                   mlen - dist, dist)
    ELSE IF mlen = dist
    THEN [out |-> out \o pyTail(buff, dist), buff |-> buff \o pyTail(buff, dist)]
    ELSE [out  |-> out \o pySlice(buff, -dist, mlen - dist),
          buff |-> buff \o pySlice(buff, -dist, mlen - dist)]

\* Inflate._decHuffBlock: one round of "for sym in lit_tree.iterHuffSyms(bits)"
\* d is the decoder [off, out, buff, res]; res stays "run" until the block
\* returns ("end") or raises.  op/mlen/dist describe what the round did.
decHuffSym(lit_tree, dist_tree, bits, d) ==
    LET l == huffNext(lit_tree, bits, d.off)
        idle == [op |-> "none", mlen |-> 0, dist |-> 0]
    IN  IF l.res = "off"
        THEN [d EXCEPT !.off = l.off, !.res = "OffHuffTree"] @@ idle
        ELSE IF l.res = "eof"
        THEN [d EXCEPT !.off = l.off, !.res = "InflateError"] @@ idle
        ELSE IF l.sym < END_BLOCK
        THEN [d EXCEPT !.off = l.off, !.out = Append(@, l.sym),
                       !.buff = Append(@, l.sym)]
             @@ [op |-> "literal", mlen |-> 0, dist |-> 0]
        ELSE IF l.sym = END_BLOCK
        THEN [d EXCEPT !.off = l.off, !.buff = updateHistBuff(@), !.res = "end"]
             @@ [op |-> "end", mlen |-> 0, dist |-> 0]
        ELSE LET m == getMatchLen(l.sym, bits, l.off)
             IN  IF m.res # "ok"
                 THEN [d EXCEPT !.off = m.off, !.res = m.res] @@ idle
                 ELSE LET ds == huffNext(dist_tree, bits, m.off)
                      IN  IF ds.res # "sym"
                          THEN [d EXCEPT !.off = ds.off,
                                         !.res = IF ds.res = "off"
                                                 THEN "OffHuffTree"
                                                 ELSE "StopIteration"] @@ idle
                          ELSE LET g == getDist(ds.sym, bits, ds.off)
                               IN  IF g.res # "ok"
                                   THEN [d EXCEPT !.off = g.off, !.res = g.res]
                                        @@ idle
                                   ELSE LET c == copyMatch(d.out, d.buff,
                                                           m.val, g.val)
                                        IN  [d EXCEPT !.off = g.off,
                                                      !.out = c.out,
                                                      !.buff = c.buff]
                                            @@ [op |-> "match", mlen |-> m.val,
                                                dist |-> g.val]

\* Inflate._decHuffBlock(bits, lit_tree, dist_tree) as a whole: out = [] and
\* rounds, n at a time, until the block returns or raises
RECURSIVE decHuffRun(_, _, _, _, _)
decHuffRun(lit_tree, dist_tree, bits, d, n) ==
    IF n = 0 \/ d.res # "run" THEN d
    ELSE Bind(decHuffSym(lit_tree, dist_tree, bits, d),
              LAMBDA r : decHuffRun(lit_tree, dist_tree, bits,
                                    [off |-> r.off, out |-> r.out,
                                     buff |-> r.buff, res |-> r.res],
                                    n - 1))
RECURSIVE decHuffLoop(_, _, _, _)
decHuffLoop(lit_tree, dist_tree, bits, d) ==
    IF d.res # "run" THEN d
    ELSE Bind(decHuffRun(lit_tree, dist_tree, bits, d, 32),
              LAMBDA r : decHuffLoop(lit_tree, dist_tree, bits, r))

decHuffBlock(lit_tree, dist_tree, bits, off, buff) ==
    decHuffLoop(lit_tree, dist_tree, bits,
                [off |-> off, out |-> << >>, buff |-> buff, res |-> "run"])

\* Inflate.getFixHuffBlock(bits)
getFixHuffBlock(bits, off, buff) == decHuffBlock(fix_lits, fix_dists, bits, off, buff)

\* Inflate.getDynHuffBlock: len_map, the order in which the widths of the
\* code length alphabet are stored
len_map == <<16, 17, 18, 0, 8, 7, 9, 6, 10, 5, 11, 4, 12, 3, 13, 2, 14, 1, 15>>

\* lens after "for i in range(hclen): lens[len_map[i]] = cast(bits, 3)"
dynLens(bits, off, hclen) ==
    [s \in 1..19 |->
        IF \E i \in 1..hclen : len_map[i] = s - 1
        THEN castLittle(bits, off + 3 * ((CHOOSE i \in 1..hclen : len_map[i] = s - 1) - 1), 3).val
        ELSE 0]

\* the mutation that drops what is left of a run at the end of code_lens
dynLenEnd_truncate(c) == [c EXCEPT !.res = "done"]

\* after the loop: "if vlen: raise InflateError('Invalid match length')"
dynLenEnd(c) == [c EXCEPT !.res = IF c.vlen # 0 THEN "InflateError" ELSE "done"]

\* one round of "while i < len(code_lens)"; c is [i, val, vlen, off,
\* code_lens, res] and res leaves "run" when the loop ends ("done") or raises
dynLenIter(len_tree, bits, c) ==
    IF c.res # "run" THEN c
    ELSE IF c.i >= Len(c.code_lens)
    THEN dynLenEnd(c)
    ELSE IF c.vlen > 0
    THEN [c EXCEPT !.code_lens = (c.i + 1 :> c.val) @@ @,
                   !.vlen = @ - 1, !.i = @ + 1]
    ELSE LET s == huffNext(len_tree, bits, c.off)
             rep(val, n, base) ==
                 LET x == castLittle(bits, s.off, n)
                 IN  IF ~x.ok THEN [c EXCEPT !.off = x.off, !.res = "StopIteration"]
                     ELSE [c EXCEPT !.off = x.off, !.val = val,
                                    !.vlen = x.val + base]
         IN  IF s.res = "off" THEN [c EXCEPT !.off = s.off, !.res = "OffHuffTree"]
             ELSE IF s.res = "eof"
             THEN [c EXCEPT !.off = s.off, !.res = "StopIteration"]
             ELSE IF s.sym < COPY_LEN
             THEN [c EXCEPT !.code_lens = (c.i + 1 :> s.sym) @@ @,
                            !.val = s.sym, !.i = @ + 1, !.off = s.off]
             ELSE IF s.sym = COPY_LEN
             THEN IF c.val = -1
                  THEN [c EXCEPT !.off = s.off, !.res = "InflateError"]
                  ELSE rep(c.val, 2, 3)
             ELSE IF s.sym = REP_BIG_LEN THEN rep(0, 3, 3)
             ELSE IF s.sym = REP_TINY_LEN THEN rep(0, 7, 11)
             ELSE [c EXCEPT !.off = s.off, !.res = "InflateError"]

\* the while loop, n rounds at a time
RECURSIVE dynLenRun(_, _, _, _)
dynLenRun(len_tree, bits, c, n) ==
    IF n = 0 \/ c.res # "run" THEN c
    ELSE Bind(dynLenIter(len_tree, bits, c),
              LAMBDA r : dynLenRun(len_tree, bits, r, n - 1))
RECURSIVE dynLenLoop(_, _, _)
dynLenLoop(len_tree, bits, c) ==
    IF c.res # "run" THEN c
    ELSE Bind(dynLenRun(len_tree, bits, c, 32),
              LAMBDA r : dynLenLoop(len_tree, bits, r))

\* Inflate.getDynHuffBlock, up to the loop over code_lens: hlit, hdist,
\* hclen, the widths of the code length alphabet and its tree
dynStart(bits, off) ==
    LET a == castLittle(bits, off, 5)
        b == castLittle(bits, a.off, 5)
        c == castLittle(bits, b.off, 4)
        hlit  == a.val + 257
        hdist == b.val + 1
        hclen == c.val + 4
        loff  == c.off + 3 * hclen
        fail(res, o) == [res |-> res, off |-> o, hlit |-> hlit, hdist |-> hdist,
                         len_tree |-> NewHuffTree, c |-> << >>]
    IN  IF ~a.ok \/ ~b.ok \/ ~c.ok \/ loff > Len(bits)
        THEN fail("StopIteration", Len(bits))
        ELSE Bind(loadCodeBook(NewHuffTree,
                               initCodeBook(dynLens(bits, c.off, hclen))),
                  LAMBDA len_tree :
             IF len_tree.err # "none" THEN fail("OffHuffTree", loff)
             ELSE [res |-> "ok", off |-> loff, hlit |-> hlit, hdist |-> hdist,
                   len_tree |-> len_tree.tree,
                   c |-> [i |-> 0, val |-> -1, vlen |-> 0, off |-> loff,
                          code_lens |-> [k \in 1..(hlit + hdist) |-> 0] @@ << >>,
                          res |-> "run"]])

\* Inflate.getDynHuffBlock, after the loop: lit_len, dist_len, the two trees
\* and the block data
dynBlocks(bits, buff, hlit, hdist, r) ==
    LET fail(res, o) == [off |-> o, out |-> << >>, buff |-> buff, res |-> res]
        lit_len  == SubSeq(r.code_lens, 1, hlit)
        dist_len == SubSeq(r.code_lens, hlit + 1, hlit + hdist)
    IN  Bind(loadCodeBook(NewHuffTree, initCodeBook(lit_len)),
             LAMBDA lit_tree :
        IF lit_tree.err # "none" THEN fail("OffHuffTree", r.off)
        ELSE IF Len(dist_len) = 1 /\ dist_len[1] = 0
        \* dist_tree is None: _decHuffBlock calls None.iterHuffSyms
        THEN fail("AttributeError", r.off)
        ELSE IF /\ {k \in 1..Len(dist_len) : dist_len[k] > 0} = {}
                /\ Cardinality({k \in 1..Len(dist_len) : dist_len[k] = 1}) = 1
        \* raise DecompError: the name is not defined
        THEN fail("NameError", r.off)
        ELSE Bind(loadCodeBook(NewHuffTree, initCodeBook(dist_len)),
                  LAMBDA dist_tree :
             IF dist_tree.err # "none" THEN fail("OffHuffTree", r.off)
             ELSE decHuffBlock(lit_tree.tree, dist_tree.tree,
                               bits, r.off, buff)))

\* Inflate.getDynHuffBlock(bits)
getDynHuffBlock(bits, off, buff) ==
    Bind(dynStart(bits, off),
         LAMBDA h :
           IF h.res # "ok"
           THEN [off |-> h.off, out |-> << >>, buff |-> buff, res |-> h.res]
           ELSE Bind(dynLenLoop(h.len_tree, bits, h.c),
                     LAMBDA r : IF r.res # "done"
                                THEN [off |-> r.off, out |-> << >>, buff |-> buff,
                                      res |-> r.res]
                                ELSE dynBlocks(bits, buff, h.hlit, h.hdist, r)))

-----------------------------------------------------------------------------
(* mszip.py *)

TYPE_UNCOMP == 0
TYPE_FIXED == 1
TYPE_DYNAMIC == 2
TYPE_INVALID == 3

\* MsZip._getUncompBlock(bits, byts): five bits are skipped, LEN and NLEN are
\* read from the bit stream, the result is the slice byts[5 : 5 + dlen] of the
\* whole frame; Inflate.buff and the bit stream are left as they are
getUncompBlock(bits, off, byts, buff) ==
    LET a    == castLittle(bits, off, 5)
        dlen == castLittle(bits, a.off, 16)
        clen == castLittle(bits, dlen.off, 16)
    IN  IF ~a.ok \/ ~dlen.ok \/ ~clen.ok
        THEN [off |-> Len(bits), out |-> << >>, buff |-> buff,
              res |-> "StopIteration"]
        ELSE IF 65535 - dlen.val # clen.val
        \* raise DeflateError: the name is not defined in mszip.py
        THEN [off |-> clen.off, out |-> << >>, buff |-> buff, res |-> "NameError"]
        ELSE [off |-> clen.off, out |-> pySlice(byts, 5, 5 + dlen.val),
              buff |-> buff, res |-> "end"]

\* self.decomps[bt](bits, byts)
decomps(bt, bits, off, byts, buff) ==
    IF bt = TYPE_UNCOMP THEN getUncompBlock(bits, off, byts, buff)
    ELSE IF bt = TYPE_FIXED THEN getFixHuffBlock(bits, off, buff)
    ELSE IF bt = TYPE_DYNAMIC THEN getDynHuffBlock(bits, off, buff)
    ELSE [off |-> off, out |-> << >>, buff |-> buff, res |-> "MsZipError"]

\* one round of "while not final" of MsZip.decompBlock: final, bt, and the
\* block; the result adds final to the decoder record
mszipBlock(bits, off, byts, buff) ==
    LET f  == castLittle(bits, off, 1)
        bt == castLittle(bits, f.off, 2)
    IN  IF ~f.ok \/ ~bt.ok
        THEN [off |-> Len(bits), out |-> << >>, buff |-> buff,
              res |-> "StopIteration", final |-> IF f.ok THEN f.val ELSE 0]
        ELSE Bind(decomps(bt.val, bits, bt.off, byts, buff),
                  LAMBDA r : [off |-> r.off, out |-> r.out, buff |-> r.buff,
                              res |-> r.res, final |-> f.val])

-----------------------------------------------------------------------------
(* bitlab.py: BitStream(blocks, order='big', cb=self.getWordBytes), the bit  *)
(* stream of lzx.py.  frames is the list of the CFDATA payloads (frm.ab).    *)

\* BitStream.__init__: nothing is read yet.  fi, off and half are the
\* position of the generator getWordBytes (frame, offset in it, and whether
\* the second byte of a word is still to be yielded); cur and nb are the byte
\* being split into bits by getBitGen and the number of its bits not yet
\* yielded; bitoff is BitStream.bitoff.
NewBitStream ==
    [fi |-> 1, off |-> 0, half |-> 0, cur |-> 0, nb |-> 0, bitoff |-> 0]

\* LzxHuffTree.getWordBytes, one next(): in byte mode the next byte, else the
\* two bytes of a word, second byte first.  A frame of odd length ends with
\* an IndexError in word mode; after it, and at the end of the last frame,
\* the generator is finished.
RECURSIVE getWordBytes(_, _, _)
getWordBytes(frames, bs, bytmode) ==
    IF bs.fi > Len(frames) THEN [res |-> "StopIteration", byte |-> 0, bs |-> bs]
    ELSE IF bs.half = 1
    THEN [res |-> "ok", byte |-> frames[bs.fi][bs.off + 1],
          bs |-> [bs EXCEPT !.off = @ + 2, !.half = 0]]
    ELSE IF bs.off >= Len(frames[bs.fi])
    THEN getWordBytes(frames, [bs EXCEPT !.fi = @ + 1, !.off = 0], bytmode)
    ELSE IF bytmode
    THEN [res |-> "ok", byte |-> frames[bs.fi][bs.off + 1],
          bs |-> [bs EXCEPT !.off = @ + 1]]
    ELSE IF bs.off + 1 >= Len(frames[bs.fi])
    THEN [res |-> "IndexError", byte |-> 0,
          bs |-> [bs EXCEPT !.fi = Len(frames) + 1, !.off = 0]]
    ELSE [res |-> "ok", byte |-> frames[bs.fi][bs.off + 2],
          bs |-> [bs EXCEPT !.half = 1]]

\* BitStream.getBitGen, one next(): the bits of each byte, most significant
\* first; bitoff counts the bits handed out
nextBit(frames, bs, bytmode) ==
    IF bs.nb > 0
    THEN [res |-> "ok", bit |-> Shr(bs.cur, bs.nb - 1) % 2,
          bs |-> [bs EXCEPT !.nb = @ - 1, !.bitoff = @ + 1]]
    ELSE Bind(getWordBytes(frames, bs, bytmode),
              LAMBDA g : IF g.res # "ok"
                         THEN [res |-> g.res, bit |-> 0, bs |-> g.bs]
                         ELSE [res |-> "ok", bit |-> Shr(g.byte, 7) % 2,
                               bs |-> [g.bs EXCEPT !.cur = g.byte, !.nb = 7,
                                                   !.bitoff = @ + 1]])

\* BitStream.cast(bitsize, 'big'): the first bit read is the most significant
RECURSIVE castBig(_, _, _, _)
castBig(frames, bs, bytmode, bitsize) ==
    IF bitsize <= 0 THEN [res |-> "ok", val |-> 0, bs |-> bs]
    ELSE Bind(nextBit(frames, bs, bytmode),
              LAMBDA b :
                IF b.res # "ok" THEN [res |-> b.res, val |-> 0, bs |-> b.bs]
                ELSE Bind(castBig(frames, b.bs, bytmode, bitsize - 1),
                          LAMBDA r : IF r.res # "ok" THEN r
                                     ELSE [r EXCEPT !.val = @ + Shl(b.bit, bitsize - 1)]))

\* one next() on HuffTree.iterHuffSyms(bits): "sym", "OffHuffTree", "eof"
\* when the bit stream ends (the generator returns), or the IndexError of
\* getWordBytes
RECURSIVE lzHuffNextFrom(_, _, _, _, _)
lzHuffNextFrom(tree, frames, bs, bytmode, node) ==
    Bind(nextBit(frames, bs, bytmode),
         LAMBDA b :
           IF b.res = "StopIteration" THEN [res |-> "eof", sym |-> None, bs |-> b.bs]
           ELSE IF b.res # "ok" THEN [res |-> b.res, sym |-> None, bs |-> b.bs]
           ELSE IF Child(node, b.bit) \notin DOMAIN tree.root
           THEN [res |-> "OffHuffTree", sym |-> None, bs |-> b.bs]
           ELSE IF tree.root[Child(node, b.bit)] # None
           THEN [res |-> "sym", sym |-> tree.root[Child(node, b.bit)], bs |-> b.bs]
           ELSE lzHuffNextFrom(tree, frames, b.bs, bytmode, Child(node, b.bit)))

lzHuffNext(tree, frames, bs, bytmode) ==
    lzHuffNextFrom(tree, frames, bs, bytmode, Root)

-----------------------------------------------------------------------------
(* lzx.py *)

LZX_FRAME_SIZE == 32768
INSTR_CALL == 232
NUM_CHARS == 256
BTYPE_VERBATIM == 1
BTYPE_ALIGNED == 2
BTYPE_UNCOMPRESSED == 3
NUM_PRIMARY_LENGTHS == 7
MIN_MATCH == 2

\* LzxHuffTree.slots
slots == <<30, 32, 34, 36, 38, 42, 50, 66, 98, 162, 290>>

\* Lzx.__init__: self.xbits[k], k in 0..101: j is appended twice per round
\* and grows from the second round on until it is 17
xbits(k) == IF k \div 2 <= 1 THEN 0
            ELSE IF k \div 2 <= 18 THEN (k \div 2) - 1 ELSE 17
\* Lzx.__init__: self.pbase[k], k in 0..50
pbaseTab ==
    LET p[i \in 0..50] == IF i = 0 THEN 0 ELSE p[i - 1] + 2 ^ xbits(i - 1)
    IN  [i \in 0..50 |-> p[i]] @@ << >>
pbase(k) == pbaseTab[k]

\* Lzx.__init__: the decoder object, or LzxError for a window size out of
\* range.  win is the bytearray behind the memoryview, win[i + 1] being
\* Python's win[i].  rawcb is first set by decompBlock.
LzxNew(comp_type) ==
    LET wbits == (comp_type \div 256) % 32
    IN  IF wbits \notin 15..21 THEN [res |-> "LzxError"]
        ELSE [res |-> "ok",
              o |-> [wbits |-> wbits, wsize |-> 2 ^ wbits,
                     win |-> [i \in 1..(2 ^ wbits) |-> 0],
                     frmcnt |-> 0, ifs |-> 0, winpos |-> 0, icp |-> 0,
                     offs |-> slots[wbits - 15 + 1] * 8, ival |-> 0,
                     r0 |-> 1, r1 |-> 1, r2 |-> 1,
                     bytmode |-> FALSE, rawcb |-> 0]]

\* Lzx.getBlockLen
getBlockLen(frames, o, bs) ==
    Bind(castBig(frames, bs, o.bytmode, 16),
         LAMBDA hi :
           IF hi.res # "ok" THEN hi
           ELSE Bind(castBig(frames, hi.bs, o.bytmode, 8),
                     LAMBDA lo : IF lo.res # "ok" THEN lo
                                 ELSE [lo EXCEPT !.val = hi.val * 256 + lo.val]))

\* Lzx.getIntelHeader
getIntelHeader(frames, o, bs) ==
    Bind(castBig(frames, bs, o.bytmode, 1),
         LAMBDA f :
           IF f.res # "ok" \/ f.val = 0 THEN f
           ELSE Bind(castBig(frames, f.bs, o.bytmode, 16),
                     LAMBDA hi :
                       IF hi.res # "ok" THEN hi
                       ELSE Bind(castBig(frames, hi.bs, o.bytmode, 16),
                                 LAMBDA lo :
                                   IF lo.res # "ok" THEN lo
                                   ELSE [lo EXCEPT !.val = hi.val * 65536 + lo.val])))

\* Lzx.getBlockHeader: [res, btype, blen, bs]
getBlockHeader(frames, o, bs) ==
    Bind(castBig(frames, bs, o.bytmode, 3),
         LAMBDA t :
           IF t.res # "ok" THEN [res |-> t.res, btype |-> 0, blen |-> 0, bs |-> t.bs]
           ELSE Bind(getBlockLen(frames, o, t.bs),
                     LAMBDA l : [res |-> l.res, btype |-> t.val,
                                 blen |-> l.val, bs |-> l.bs]))

\* Lzx.readBytes: cnt times cast(bits, 8) in byte mode.  Bytes that lie in
\* one frame and start at a byte boundary are taken at once.  An exception
\* leaves bytmode set.  [res, out, bs, bytmode]
RECURSIVE readBytes(_, _, _)
readBytes(frames, bs, cnt) ==
    IF cnt <= 0 THEN [res |-> "ok", out |-> << >>, bs |-> bs, bytmode |-> FALSE]
    ELSE IF bs.nb = 0 /\ bs.half = 0 /\ bs.fi <= Len(frames)
              /\ bs.off < Len(frames[bs.fi])
    THEN LET k == IF cnt < Len(frames[bs.fi]) - bs.off
                  THEN cnt ELSE Len(frames[bs.fi]) - bs.off
             got == SubSeq(frames[bs.fi], bs.off + 1, bs.off + k)
         IN  Bind(readBytes(frames,
                            [bs EXCEPT !.off = @ + k, !.cur = got[k],
                                       !.bitoff = @ + 8 * k], cnt - k),
                  LAMBDA r : [r EXCEPT !.out = got \o @])
    ELSE Bind(castBig(frames, bs, TRUE, 8),
              LAMBDA c :
                IF c.res # "ok"
                THEN [res |-> c.res, out |-> << >>, bs |-> c.bs, bytmode |-> TRUE]
                ELSE Bind(readBytes(frames, c.bs, cnt - 1),
                          LAMBDA r : [r EXCEPT !.out = <<c.val>> \o @]))

\* Lzx.readInt: [res, val, bs, bytmode]
readInt(frames, bs) ==
    Bind(readBytes(frames, bs, 4),
         LAMBDA r : [res |-> r.res, bs |-> r.bs, bytmode |-> r.bytmode,
                     val |-> IF r.res # "ok" THEN 0
                             ELSE r.out[1] + 256 * r.out[2] + 65536 * r.out[3]
                                    + 16777216 * r.out[4]])

\* Lzx._initVerb and Lzx._initAlign: LzxHuffTree has no method clear
initVerb(frames, o, bs) == [res |-> "AttributeError", o |-> o, bs |-> bs]
initAlign(frames, o, bs) == [res |-> "AttributeError", o |-> o, bs |-> bs]

\* Lzx._initUncomp: [res, o, bs]
initUncomp(frames, o, bs) ==
    Bind(castBig(frames, bs, o.bytmode, 16 - (bs.bitoff % 16)),
      LAMBDA c :
        IF c.res # "ok" THEN [res |-> c.res, o |-> o, bs |-> c.bs]
        ELSE Bind(readInt(frames, c.bs),
          LAMBDA a :
            IF a.res # "ok"
            THEN [res |-> a.res, bs |-> a.bs,
                  o |-> [o EXCEPT !.ival = 1, !.bytmode = a.bytmode]]
            ELSE Bind(readInt(frames, a.bs),
              LAMBDA b :
                IF b.res # "ok"
                THEN [res |-> b.res, bs |-> b.bs,
                      o |-> [o EXCEPT !.ival = 1, !.r0 = a.val,
                                      !.bytmode = b.bytmode]]
                ELSE Bind(readInt(frames, b.bs),
                  LAMBDA d :
                    IF d.res # "ok"
                    THEN [res |-> d.res, bs |-> d.bs,
                          o |-> [o EXCEPT !.ival = 1, !.r0 = a.val, !.r1 = b.val,
                                          !.bytmode = d.bytmode]]
                    ELSE [res |-> "ok", bs |-> d.bs,
                          o |-> [o EXCEPT !.ival = 1, !.r0 = a.val, !.r1 = b.val,
                                          !.r2 = d.val]]))))

\* Lzx._winAppend for each of byts in turn: an IndexError at the end of the
\* window, the bytes before it being written.  [res, o]
winAppendAll(o, byts) ==
    LET room == IF o.winpos >= o.wsize THEN 0 ELSE o.wsize - o.winpos
        k == IF Len(byts) <= room THEN Len(byts) ELSE room
    IN  [res |-> IF k < Len(byts) THEN "IndexError" ELSE "ok",
         o |-> IF k = 0 THEN o
               ELSE [o EXCEPT !.winpos = @ + k,
                              !.win = SubSeq(o.win, 1, o.winpos) \o SubSeq(byts, 1, k)
                                        \o SubSeq(o.win, o.winpos + k + 1, o.wsize)]]

\* Lzx._winAppend
winAppend(o, item) == winAppendAll(o, <<item>>)

\* Lzx._getAbsView: a slice of the window
getAbsView(o, offset, nbytes) == pySlice(o.win, offset, offset + nbytes)

\* Lzx._getWinView
getWinView(o, offset, nbytes) ==
    pySlice(o.win, o.winpos + offset, o.winpos + offset + nbytes)

\* Lzx._setWinView: assignment to a slice of the memoryview; the slice must
\* have the length of data.  [res, o]
setWinView(o, offset, data) ==
    LET a == pyIndex(o.wsize, o.winpos + offset)
        b == pyIndex(o.wsize, o.winpos + offset + Len(data))
    IN  IF (IF b <= a THEN 0 ELSE b - a) # Len(data)
        THEN [res |-> "ValueError", o |-> o]
        ELSE [res |-> "ok",
              o |-> [o EXCEPT !.win = SubSeq(o.win, 1, a) \o data
                                        \o SubSeq(o.win, a + Len(data) + 1, o.wsize)]]

\* Lzx._getFrameAlign
getFrameAlign(o) == LZX_FRAME_SIZE - (o.winpos % LZX_FRAME_SIZE)

\* Lzx.alignWord: [res, val, bs]
alignWord_noCast(frames, o, bs) == [res |-> "ok", val |-> 0, bs |-> bs]

alignWord(frames, o, bs) ==
    IF 16 - (bs.bitoff % 16) = 16 THEN [res |-> "ok", val |-> 0, bs |-> bs]
    ELSE castBig(frames, bs, o.bytmode, 16 - (bs.bitoff % 16))

\* the frame boundary is ignored: the whole block is one chunk
decUncompChunk_noFrame(frames, o, bs, remains) ==
    Bind(readBytes(frames, bs, remains),
      LAMBDA rb :
        IF rb.res # "ok"
        THEN [res |-> rb.res, o |-> [o EXCEPT !.bytmode = rb.bytmode],
              bs |-> rb.bs, frame |-> << >>, remains |-> remains]
        ELSE Bind(winAppendAll(o, rb.out),
               LAMBDA w : [res |-> w.res, o |-> w.o, bs |-> rb.bs,
                           frame |-> rb.out, remains |-> 0]))

\* Lzx.decUncomp, one round of "while remains" up to its yield:
\* [res, o, bs, frame, remains]
decUncompChunk(frames, o, bs, remains) ==
    LET align == getFrameAlign(o)
        need0 == IF align = 0 THEN LZX_FRAME_SIZE ELSE align
        need == IF need0 > remains THEN remains ELSE need0
    IN  Bind(readBytes(frames, bs, need),
          LAMBDA rb :
            IF rb.res # "ok"
            THEN [res |-> rb.res, o |-> [o EXCEPT !.bytmode = rb.bytmode],
                  bs |-> rb.bs, frame |-> << >>, remains |-> remains]
            ELSE Bind(winAppendAll(o, rb.out),
                   LAMBDA w : [res |-> w.res, o |-> w.o, bs |-> rb.bs,
                               frame |-> rb.out, remains |-> remains - need]))

\* ctypes.c_int of the four bytes b0..b3, least significant first
c_int4(b0, b1, b2, b3) ==
    b0 + 256 * b1 + 65536 * b2 + 16777216 * (IF b3 >= 128 THEN b3 - 256 ELSE b3)

\* Lzx._decIntel, "Validate the markers": the call bytes that are
\* translated; the indices from l on are still to be looked at
RECURSIVE intelMarkers(_, _, _, _)
intelMarkers(indices, n, l, markers) ==
    IF {j \in indices : j >= l} = {} THEN markers
    ELSE Bind(CHOOSE j \in indices : j >= l /\ \A k \in indices : k >= l => j <= k,
              LAMBDA m : IF m - markers[Len(markers)] >= 5 /\ m < n - 10
                         THEN intelMarkers(indices, n, m + 1, Append(markers, m))
                         ELSE intelMarkers(indices, n, m + 1, markers))

\* the file size is never added
intelReloff_noWrap(absoff, curpos, ifs) == absoff - curpos

\* Lzx._decIntel, "if absoff >= 0: reloff = absoff - curpos, else: reloff =
\* absoff + self.ifs"
intelReloff(absoff, curpos, ifs) ==
    IF absoff >= 0 THEN absoff - curpos ELSE absoff + ifs

\* Lzx._decIntel, the loop over the markers from the i-th on: [res, ibuf]
RECURSIVE intelFix(_, _, _, _, _)
intelFix(ibuf, markers, i, curpos0, ifs) ==
    IF i > Len(markers) THEN [res |-> "ok", ibuf |-> ibuf]
    ELSE LET curpos == IF i = 1 THEN curpos0 + markers[1]
                       ELSE curpos0 + (markers[i] - markers[i - 1])
             idx == markers[i] + 1
         IN  IF idx + 3 >= Len(ibuf) THEN [res |-> "IndexError", ibuf |-> ibuf]
             ELSE LET absoff == c_int4(ibuf[idx + 1], ibuf[idx + 2],
                                       ibuf[idx + 3], ibuf[idx + 4])
                      reloff == intelReloff(absoff, curpos, ifs)
                      fixed == [k \in 1..Len(ibuf) |->
                                  IF k \in (idx + 1)..(idx + 4)
                                  THEN Shr(reloff, 8 * (k - idx - 1)) % 256
                                  ELSE ibuf[k]]
                  IN  IF (curpos < 0 \/ absoff >= -curpos) /\ absoff < ifs
                      THEN intelFix(fixed, markers, i + 1, curpos, ifs)
                      ELSE intelFix(ibuf, markers, i + 1, curpos, ifs)

\* Lzx._decIntel: [res, o, fix].  icp stays below 2^31 in the model, where
\* ctypes.c_int(self.icp).value is self.icp.
decIntelCalls(o, fsize, ibuf, indices) ==
    IF indices = {}
    THEN [res |-> "ok", fix |-> ibuf, o |-> [o EXCEPT !.icp = @ + fsize]]
    ELSE Bind(CHOOSE i \in indices : \A j \in indices : i <= j,
           LAMBDA first :
             Bind(intelFix(ibuf, intelMarkers(indices, Len(ibuf), first, <<first>>),
                           1, o.icp, o.ifs),
               LAMBDA r : IF r.res # "ok"
                          THEN [res |-> r.res, fix |-> << >>, o |-> o]
                          ELSE [res |-> "ok", fix |-> r.ibuf,
                                o |-> [o EXCEPT !.icp = @ + fsize]]))

decIntel(o, fsize) ==
    Bind(getWinView(o, -fsize, fsize),
      LAMBDA ibuf :
        IF o.ival = 0 \/ o.ifs = 0 \/ (o.frmcnt > LZX_FRAME_SIZE /\ fsize <= 10)
        THEN [res |-> "ok", fix |-> ibuf,
              o |-> IF o.ifs # 0 THEN [o EXCEPT !.icp = @ + fsize] ELSE o]
        ELSE Bind({i \in 0..(Len(ibuf) - 1) : ibuf[i + 1] = INSTR_CALL},
                  LAMBDA indices : decIntelCalls(o, fsize, ibuf, indices)))

\* Lzx._postProcess
postProcess(o, frame) ==
    decIntel(o, IF Len(frame) >= o.rawcb THEN Len(frame) ELSE LZX_FRAME_SIZE)

\* decVerbatim and decAligned, "Get the match len": [res, mlen, bs]
matchLen(frames, o, bs, ltree, sym) ==
    IF sym % 8 # NUM_PRIMARY_LENGTHS
    THEN [res |-> "ok", mlen |-> (sym % 8) + MIN_MATCH, bs |-> bs]
    ELSE Bind(lzHuffNext(ltree, frames, bs, o.bytmode),
              LAMBDA l :
                IF l.res = "sym"
                THEN [res |-> "ok", bs |-> l.bs,
                      mlen |-> NUM_PRIMARY_LENGTHS + l.sym + MIN_MATCH]
                ELSE [res |-> IF l.res = "eof" THEN "StopIteration" ELSE l.res,
                      mlen |-> 0, bs |-> l.bs])

\* the offset is used but R1 and R2 keep their values
recent_noShift(o, bs, r0, r1, r2) ==
    [res |-> "ok", moff |-> r0, bs |-> bs, o |-> [o EXCEPT !.r0 = r0]]

\* the three recent offsets after a match: [res, moff, o, bs]
recent(o, bs, r0, r1, r2) ==
    [res |-> "ok", moff |-> r0, bs |-> bs,
     o |-> [o EXCEPT !.r0 = r0, !.r1 = r1, !.r2 = r2]]

\* Lzx.decVerbatim, "Get the match offset"
verbatimOffset(frames, o, bs, slot) ==
    IF slot > 3
    THEN IF slot > 101 THEN [res |-> "IndexError", moff |-> 0, o |-> o, bs |-> bs]
         ELSE Bind(castBig(frames, bs, o.bytmode, xbits(slot)),
                LAMBDA v :
                  IF v.res # "ok"
                  THEN [res |-> v.res, moff |-> 0, o |-> o, bs |-> v.bs]
                  ELSE IF slot > 50
                  THEN [res |-> "IndexError", moff |-> 0, o |-> o, bs |-> v.bs]
                  ELSE recent(o, v.bs, pbase(slot) - 2 + v.val, o.r0, o.r1))
    ELSE IF slot = 0 THEN recent(o, bs, o.r0, o.r1, o.r2)
    ELSE IF slot = 1 THEN recent(o, bs, o.r1, o.r0, o.r2)
    ELSE IF slot = 2 THEN recent(o, bs, o.r2, o.r1, o.r0)
    ELSE recent(o, bs, 1, o.r0, o.r1)

\* Lzx.decAligned, "Get the match offset"
alignedOffset(frames, o, bs, atree, slot) ==
    LET anext(b, base) ==
          Bind(lzHuffNext(atree, frames, b, o.bytmode),
               LAMBDA a :
                 IF a.res = "sym" THEN recent(o, a.bs, base + a.sym, o.r0, o.r1)
                 ELSE [res |-> IF a.res = "eof" THEN "StopIteration" ELSE a.res,
                       moff |-> 0, o |-> o, bs |-> a.bs])
    IN  IF slot > 2
        THEN IF slot > 50 THEN [res |-> "IndexError", moff |-> 0, o |-> o, bs |-> bs]
             ELSE IF xbits(slot) > 3
             THEN Bind(castBig(frames, bs, o.bytmode, xbits(slot) - 3),
                    LAMBDA v :
                      IF v.res # "ok"
                      THEN [res |-> v.res, moff |-> 0, o |-> o, bs |-> v.bs]
                      ELSE anext(v.bs, pbase(slot) - 2 + 8 * v.val))
             ELSE IF xbits(slot) = 3 THEN anext(bs, pbase(slot) - 2)
             ELSE IF xbits(slot) > 0
             THEN Bind(castBig(frames, bs, o.bytmode, xbits(slot)),
                    LAMBDA v :
                      IF v.res # "ok"
                      THEN [res |-> v.res, moff |-> 0, o |-> o, bs |-> v.bs]
                      ELSE recent(o, v.bs, pbase(slot) - 2 + v.val, o.r0, o.r1))
             ELSE recent(o, bs, 1, o.r0, o.r1)
        ELSE IF slot = 0 THEN recent(o, bs, o.r0, o.r1, o.r2)
        ELSE IF slot = 1 THEN recent(o, bs, o.r1, o.r0, o.r2)
        ELSE recent(o, bs, o.r2, o.r1, o.r0)

\* [ self._winAppend(self.win[self.winpos-moff]) for i in range(mlen) ]
RECURSIVE copyBytes(_, _, _)
copyBytes(o, moff, mlen) ==
    IF mlen <= 0 THEN [res |-> "ok", o |-> o]
    ELSE IF o.winpos - moff >= o.wsize THEN [res |-> "IndexError", o |-> o]
    ELSE Bind(winAppend(o, o.win[o.winpos - moff + 1]),
              LAMBDA w : IF w.res # "ok" THEN w ELSE copyBytes(w.o, moff, mlen - 1))

\* decVerbatim and decAligned, the copy of a match whose source begins
\* before the start of the window ("if moff > self.winpos"): [res, o, run]
wrapCopy(o, moff, mlen, run) ==
    LET rem == moff - o.winpos
        mach == o.wsize - rem
        last(p, from, n, r) ==
          Bind(setWinView(p, 0, getAbsView(p, from, n)),
               LAMBDA s : [res |-> s.res, run |-> IF s.res = "ok" THEN r + n ELSE r,
                           o |-> IF s.res = "ok" THEN [s.o EXCEPT !.winpos = @ + n]
                                 ELSE s.o])
    IN  IF rem < mlen
        THEN Bind(setWinView(o, 0, getAbsView(o, mach, rem)),
               LAMBDA s : IF s.res # "ok" THEN [res |-> s.res, o |-> s.o, run |-> run]
                          ELSE last([s.o EXCEPT !.winpos = @ + rem], 0,
                                    mlen - rem, run + rem))
        ELSE last(o, mach, mlen, run)

\* decVerbatim and decAligned, the copy of a match: [res, o, run]
matchCopy(o, moff, mlen, run) ==
    IF moff > o.winpos THEN wrapCopy(o, moff, mlen, run)
    ELSE Bind(copyBytes(o, moff, mlen),
              LAMBDA c : [res |-> c.res, o |-> c.o,
                          run |-> IF c.res = "ok" THEN run + mlen ELSE run])

\* decVerbatim and decAligned from the alignment test to the end of the
\* round
decTail(frames, o, bs, g, run, op, mlen, moff) ==
    Bind(IF o.winpos % LZX_FRAME_SIZE = 0 THEN alignWord(frames, o, bs)
         ELSE [res |-> "ok", val |-> 0, bs |-> bs],
      LAMBDA al :
        LET info == [op |-> op, mlen |-> mlen, moff |-> moff,
                     algn |-> al.bs.bitoff - bs.bitoff, slot |-> 0,
                     pre |-> <<o.r0, o.r1, o.r2>>]
        IN  IF al.res # "ok"
            THEN [res |-> al.res, o |-> o, bs |-> al.bs, frame |-> << >>,
                  g |-> [g EXCEPT !.run = run], last |-> info]
            ELSE IF run >= g.remains
            THEN [res |-> "final", o |-> o, bs |-> al.bs,
                  frame |-> getWinView(o, -run, run),
                  g |-> [g EXCEPT !.run = run], last |-> info]
            ELSE IF run >= g.maxrun
            THEN [res |-> "yield", o |-> o, bs |-> al.bs,
                  frame |-> getWinView(o, -run, run),
                  g |-> [g EXCEPT !.run = run, !.maxrun = LZX_FRAME_SIZE],
                  last |-> info]
            ELSE [res |-> "run", o |-> o, bs |-> al.bs, frame |-> << >>,
                  g |-> [g EXCEPT !.run = run], last |-> info])

\* one round of "for sym in mit" of decVerbatim (aligned = FALSE) or
\* decAligned (aligned = TRUE), g being the locals remains, run and maxrun.
\* res is "run" when the round ends at the loop head, "yield" and "final"
\* at the two yields, "return" when mit is exhausted, else the exception.
\* frame is what is yielded; op, mlen, moff and algn say what the round did.
decSym(aligned, frames, o, bs, mtree, ltree, atree, g) ==
    LET fail(res, p, b, op, mlen, moff) ==
          [res |-> res, o |-> p, bs |-> b, frame |-> << >>, g |-> g,
           last |-> [op |-> op, mlen |-> mlen, moff |-> moff, algn |-> 0,
                     slot |-> 0, pre |-> <<o.r0, o.r1, o.r2>>]]
        began(r, slot) ==
          [r EXCEPT !.last.slot = slot, !.last.pre = <<o.r0, o.r1, o.r2>>]
    IN
    Bind(lzHuffNext(mtree, frames, bs, o.bytmode),
      LAMBDA s :
        IF s.res = "eof" THEN fail("return", o, s.bs, "none", 0, 0)
        ELSE IF s.res # "sym" THEN fail(s.res, o, s.bs, "none", 0, 0)
        ELSE IF s.sym < NUM_CHARS
        THEN Bind(winAppend(o, s.sym),
               LAMBDA w :
                 IF w.res # "ok" THEN fail(w.res, w.o, s.bs, "lit", 0, 0)
                 ELSE decTail(frames, w.o, s.bs, g, g.run + 1, "lit", 0, 0))
        ELSE Bind(matchLen(frames, o, s.bs, ltree, s.sym - NUM_CHARS),
               LAMBDA ml :
                 IF ml.res # "ok" THEN fail(ml.res, o, ml.bs, "match", 0, 0)
                 ELSE began(
                      Bind(IF aligned
                           THEN alignedOffset(frames, o, ml.bs, atree,
                                              (s.sym - NUM_CHARS) \div 8)
                           ELSE verbatimOffset(frames, o, ml.bs,
                                               (s.sym - NUM_CHARS) \div 8),
                        LAMBDA mo :
                          IF mo.res # "ok"
                          THEN fail(mo.res, mo.o, mo.bs, "match", ml.mlen, 0)
                          ELSE Bind(matchCopy(mo.o, mo.moff, ml.mlen, g.run),
                                 LAMBDA c :
                                   IF c.res # "ok"
                                   THEN fail(c.res, c.o, mo.bs, "match",
                                             ml.mlen, mo.moff)
                                   ELSE decTail(frames, c.o, mo.bs, g, c.run,
                                                "match", ml.mlen, mo.moff))),
                      (s.sym - NUM_CHARS) \div 8)))

-----------------------------------------------------------------------------
(* formats/cab.py *)

compNONE == 0
compMSZIP == 1
compQUANTUM == 2
compLZX == 3

\* the sizes of the fixed parts of CFHEADER, CFFOLDER and CFFILE
cbCFHEADER == 4 + 4 + 4 + 4 + 4 + 4 + 1 + 1 + 2 + 2 + 2 + 2 + 2
cbCFFOLDER == 4 + 2 + 2
cbCFFILE == 4 + 4 + 2 + 2 + 2 + 2

\* A cabinet is [typeCompress, datas, files]: one folder, its CFDATA, each
\* [kind, cbUncomp], and the CFFILE table, each [szName, uoffFolderStart,
\* cbFile].  The kind of a CFDATA says what its bytes ab are: "deflate" is
\* 'CK' and a deflate stream that ends with a final block and holds cbUncomp
\* bytes, "bad" is 'CK' and bytes that are no deflate data, "nock" does not
\* begin with 'CK'.  Names are one character long.
coffCabStart(cab) == cbCFHEADER + cbCFFOLDER + Len(cab.files) * (cbCFFILE + 2)

\* the plaintext of the folder and of its k-th CFDATA
RECURSIVE cabSum(_, _)
cabSum(datas, k) == IF k <= 0 THEN 0 ELSE datas[k].cbUncomp + cabSum(datas, k - 1)
cabPlain(cab) == [i \in 1..cabSum(cab.datas, Len(cab.datas)) |-> (7 * i) % 251]
cabPlainOf(cab, k) ==
    SubSeq(cabPlain(cab), cabSum(cab.datas, k - 1) + 1, cabSum(cab.datas, k))

\* CabLab._loadFilesByName and dict.get: <<the last CFFILE of the name>>, or
\* << >> for None
filesbyname(cab, name) ==
    LET is == {i \in 1..Len(cab.files) : cab.files[i].szName = name}
    IN  IF is = {} THEN << >> ELSE <<cab.files[Max(is)]>>

\* CabLab.iterCabData, the k-th getStruct: the k-th CFDATA of the folder, the
\* folder being the last thing in the file.  What getStruct does at the end
\* of the file is vstruct's: it raises (how = "raise") or gives a CFDATA of
\* zeros and no bytes (how = "empty").
CabEofReads == {"raise", "empty"}
iterCabData(cab, k, how) ==
    IF k <= Len(cab.datas)
    THEN [res |-> "ok", cfd |-> cab.datas[k]]
    ELSE IF how = "raise" THEN [res |-> "Exception", cfd |-> None]
    ELSE [res |-> "ok", cfd |-> [kind |-> "nock", cbUncomp |-> 0]]

\* deco.decompress(comp) of zlib on the bytes after 'CK' of the k-th CFDATA:
\* [res, uncomp, eof].  A decompressobj that has seen the end of its stream
\* returns b'' and keeps the bytes as unused_data.
decompress(cab, k, cfd, eof) ==
    IF eof THEN [res |-> "ok", uncomp |-> << >>, eof |-> TRUE]
    ELSE IF cfd.kind = "deflate"
    THEN [res |-> "ok", uncomp |-> cabPlainOf(cab, k), eof |-> TRUE]
    ELSE [res |-> "zlib.error", uncomp |-> << >>, eof |-> eof]

\* CabLab.openCabFile, one round of "for uoff,cfd in self.iterCabData(..)"
\* for the CFFILE f, cfd being the k-th CFDATA: [res, uncomp, eof, ndec,
\* wrote].  res is "break", "next" at the end of the body and at its
\* continue, or the exception; uncomp is <<bytes>> if the local was assigned;
\* wrote are the bytes written to fd: none, the writes being commented out.
openCabBody(cab, f, k, uoff, cfd, eof) ==
    IF uoff >= f.uoffFolderStart + f.cbFile
    THEN [res |-> "break", uncomp |-> << >>, eof |-> eof, ndec |-> 0,
          wrote |-> << >>]
    ELSE IF cfd.kind = "nock"
    THEN [res |-> "Exception", uncomp |-> << >>, eof |-> eof, ndec |-> 0,
          wrote |-> << >>]
    ELSE Bind(decompress(cab, k, cfd, eof),
           LAMBDA d :
             IF d.res # "ok"
             THEN [res |-> d.res, uncomp |-> << >>, eof |-> d.eof, ndec |-> 1,
                   wrote |-> << >>]
             ELSE IF Len(d.uncomp) # cfd.cbUncomp
             THEN [res |-> "Exception", uncomp |-> <<d.uncomp>>, eof |-> d.eof,
                   ndec |-> 1, wrote |-> << >>]
             ELSE [res |-> "next", uncomp |-> <<d.uncomp>>, eof |-> d.eof,
                   ndec |-> 1, wrote |-> << >>])

-----------------------------------------------------------------------------
(* The HuffTree driver: build a codebook from a width table, load it, decode *)

\* The width table of the docstring of initCodeBook (symbols A..H)
Rfc1951Example == <<3, 3, 3, 3, 3, 2, 4, 4>>

HuffTables == SeqsOf(0..MaxBits, 0, NSym) \cup {Rfc1951Example}

HuffIdle ==
    /\ h_pc = "idle"
    /\ h_symbits = << >>
    /\ h_book = << >>
    /\ h_tree = NewHuffTree
    /\ h_fed = << >>
    /\ h_out = << >>
    /\ h_end = "root"

HuffInit ==
    /\ h_pc = "new"
    /\ h_symbits \in HuffTables
    /\ h_book = << >>
    /\ h_tree = NewHuffTree
    /\ h_fed = << >>
    /\ h_out = << >>
    /\ h_end = "root"

\* book = huff.initCodeBook(symbits)
InitCodeBook ==
    /\ h_pc = "new"
    /\ h_book' = initCodeBook(h_symbits)
    /\ h_pc' = "booked"
    /\ UNCHANGED <<h_symbits, h_tree, h_fed, h_out, h_end>>
    /\ UNCHANGED <<infVars, mzVars, lzVars, restVars>>

\* huff.loadCodeBook(book)
LoadCodeBook ==
    /\ h_pc = "booked"
    /\ LET r == loadCodeBook(h_tree, h_book)
       IN  /\ h_tree' = r.tree
           /\ h_pc' = IF r.err = "none" THEN "loaded" ELSE "raised"
    /\ UNCHANGED <<h_symbits, h_book, h_fed, h_out, h_end>>
    /\ UNCHANGED <<infVars, mzVars, lzVars, restVars>>

\* tuple(huff.iterHuffSyms(bits)) where bits are the codes of some entries of
\* the loaded codebook, each written most significant bit first
IterHuffSyms ==
    /\ h_pc = "loaded"
    /\ h_book # << >>
    /\ \E es \in SeqsOf(1..Len(h_book), 1, MaxDecode) :
         LET bits == Concat([k \in 1..Len(es) |->
                               bitvals(h_book[es[k]][3], h_book[es[k]][2])])
             r    == iterHuffSyms(h_tree, bits)
         IN  /\ h_fed' = [k \in 1..Len(es) |-> h_book[es[k]][1]]
             /\ h_out' = r.syms
             /\ h_end' = r.end
    /\ h_pc' = "decoded"
    /\ UNCHANGED <<h_symbits, h_book, h_tree>>
    /\ UNCHANGED <<infVars, mzVars, lzVars, restVars>>

HuffNext == InitCodeBook \/ LoadCodeBook \/ IterHuffSyms

-----------------------------------------------------------------------------
(* Generated DEFLATE input: an encoder for the blocks the drivers decode.   *)
(* It is the inverse of the decoder's tables and is not part of the program. *)

LitBytes == {65, 66}
GenItems ==
    {[k |-> "lit", b |-> b, len |-> 0, dist |-> 0] : b \in LitBytes} \cup
    {[k |-> "match", b |-> 0, len |-> l, dist |-> d] :
        l \in 3..MaxMatchLen, d \in 1..MaxMatchDist}

\* the code of symbol s in a codebook that holds every symbol
genCode(book, s) == bitvals(book[s + 1][3], book[s + 1][2])
\* x as n extra bits, least significant first
genExtra(x, n) == [i \in 1..n |-> Shr(x, i - 1) % 2]
\* the number of extra bits of a length / distance symbol
genLenXbits(s) == IF s <= 264 \/ s = 285 THEN 0 ELSE (s - 261) \div 4
genDistXbits(s) == IF s <= 3 THEN 0 ELSE (s \div 2) - 1
\* the <<symbol, extra bits>> that getMatchLen / getDist decode to v
genLenSym(v) ==
    LET base(s) == getMatchLen(s, genExtra(0, genLenXbits(s)), 0).val
        s == CHOOSE s \in 257..285 :
                 base(s) <= v /\ v < base(s) + 2 ^ genLenXbits(s)
    IN  <<s, v - base(s)>>
genDistSym(v) ==
    LET base(s) == getDist(s, genExtra(0, genDistXbits(s)), 0).val
        s == CHOOSE s \in 0..29 :
                 base(s) <= v /\ v < base(s) + 2 ^ genDistXbits(s)
    IN  <<s, v - base(s)>>
genFixLitBook == initCodeBook(fixSymbits)
genFixDistBook == initCodeBook([s \in 1..32 |-> 5])
genItem(it) ==
    IF it.k = "lit" THEN genCode(genFixLitBook, it.b)
    ELSE LET l == genLenSym(it.len)
             d == genDistSym(it.dist)
         IN  genCode(genFixLitBook, l[1]) \o genExtra(l[2], genLenXbits(l[1]))
               \o genCode(genFixDistBook, d[1]) \o genExtra(d[2], genDistXbits(d[1]))
genItemBits == [it \in GenItems |-> genItem(it)] @@ << >>
genEndBits == genCode(genFixLitBook, END_BLOCK)
\* the symbols of a fixed Huffman block and its end-of-block symbol
genFixedData(items) ==
    Concat([i \in 1..Len(items) |-> genItemBits[items[i]]]) \o genEndBits
\* bits, least significant first, packed into bytes and padded with zeros
genPack(bits) ==
    [n \in 1..((Len(bits) + 7) \div 8) |->
        LET v[i \in 0..8] ==
              IF i = 0 THEN 0
              ELSE v[i - 1] + (IF 8 * (n - 1) + i <= Len(bits)
                               THEN Shl(bits[8 * (n - 1) + i], i - 1) ELSE 0)
        IN  v[8]]

\* what DEFLATE says the items expand to after the history hist, byte by
\* byte; "bad" when a distance reaches before the start of the history
RECURSIVE refCopy(_, _, _)
refCopy(hist, n, d) ==
    IF n = 0 THEN hist ELSE refCopy(Append(hist, hist[Len(hist) + 1 - d]), n - 1, d)
RECURSIVE refExpand(_, _, _)
refExpand(hist, items, i) ==
    IF i > Len(items) THEN [ok |-> TRUE, hist |-> hist]
    ELSE IF items[i].k = "lit" THEN refExpand(Append(hist, items[i].b), items, i + 1)
    ELSE IF items[i].dist > Len(hist) THEN [ok |-> FALSE, hist |-> hist]
    ELSE refExpand(refCopy(hist, items[i].len, items[i].dist), items, i + 1)

-----------------------------------------------------------------------------
(* The Inflate driver: Inflate().getFixHuffBlock(bits) on a generated block *)

InfIdle ==
    /\ inf_pc = "idle"
    /\ inf_items = << >>
    /\ inf_bits = << >>
    /\ inf_d = [off |-> 0, out |-> << >>, buff |-> << >>, res |-> "run"]
    /\ inf_last = [op |-> "none", mlen |-> 0, dist |-> 0, pbuff |-> << >>, pout |-> << >>]

InfInit ==
    /\ inf_pc = "new"
    /\ inf_items \in SeqsOf(GenItems, 0, MaxItems)
    /\ inf_bits = lsbBits(genPack(genFixedData(inf_items)))
    /\ inf_d = [off |-> 0, out |-> << >>, buff |-> << >>, res |-> "run"]
    /\ inf_last = [op |-> "none", mlen |-> 0, dist |-> 0, pbuff |-> << >>, pout |-> << >>]

\* getFixHuffBlock -> _decHuffBlock up to the symbol loop: out = []
InfCall ==
    /\ inf_pc = "new"
    /\ inf_pc' = "block"
    /\ UNCHANGED <<inf_items, inf_bits, inf_d, inf_last>>
    /\ UNCHANGED <<huffVars, mzVars, lzVars, restVars>>

\* one round of the symbol loop of _decHuffBlock
InfSym ==
    /\ inf_pc = "block"
    /\ LET n == decHuffSym(fix_lits, fix_dists, inf_bits, inf_d)
       IN  /\ inf_d' = [off |-> n.off, out |-> n.out, buff |-> n.buff, res |-> n.res]
           /\ inf_last' = [op |-> n.op, mlen |-> n.mlen, dist |-> n.dist,
                           pbuff |-> inf_d.buff, pout |-> inf_d.out]
           /\ inf_pc' = IF n.res = "run" THEN "block"
                        ELSE IF n.res = "end" THEN "returned" ELSE "raised"
    /\ UNCHANGED <<inf_items, inf_bits>>
    /\ UNCHANGED <<huffVars, mzVars, lzVars, restVars>>

InfNext == InfCall \/ InfSym

-----------------------------------------------------------------------------
(* Generated CFDATA blocks: 'CK' and one or two DEFLATE blocks, encoded as  *)
(* RFC 1951 says, and their plaintext.  Not part of the program.            *)

SigCK == <<67, 75>>
MzPayloads == SeqsOf(LitBytes, 0, MaxPayload) \cup {<<104, 101, 108, 108, 111>>}
MzFixedData ==
    {<<[k |-> "lit", b |-> 65, len |-> 0, dist |-> 0]>>,
     <<[k |-> "lit", b |-> 66, len |-> 0, dist |-> 0],
       [k |-> "match", b |-> 0, len |-> 3, dist |-> 1]>>,
     <<[k |-> "match", b |-> 0, len |-> 3, dist |-> 2]>>}
MzBlockKinds ==
    {[t |-> "stored", data |-> p, items |-> << >>] : p \in MzPayloads} \cup
    {[t |-> "fixed", data |-> << >>, items |-> i] : i \in MzFixedData} \cup
    {[t |-> "invalid", data |-> << >>, items |-> << >>]}
MzFrames ==
    {[sig |-> SigCK, blocks |-> <<b>>, finals |-> <<f>>] :
        b \in MzBlockKinds, f \in {0, 1}} \cup
    {[sig |-> SigCK, blocks |-> <<b[1], b[2]>>, finals |-> fs] :
        b \in MzBlockKinds \X MzBlockKinds, fs \in {<<0, 1>>, <<1, 1>>}} \cup
    {[sig |-> <<88, 75>>, blocks |-> <<b>>, finals |-> <<1>>] :
        b \in {[t |-> "stored", data |-> <<65>>, items |-> << >>]}}
MzNoFrame == [sig |-> << >>, blocks |-> << >>, finals |-> << >>]

\* the bits of a block appended to the bits before it: BFINAL, BTYPE, and for
\* a stored block the padding to a byte boundary, LEN, NLEN and the payload
genBlockBits(pre, blk, final) ==
    IF blk.t = "stored"
    THEN LET h == pre \o <<final>> \o genExtra(TYPE_UNCOMP, 2)
             n == Len(blk.data)
         IN  h \o [i \in 1..((8 - (Len(h) % 8)) % 8) |-> 0]
               \o lsbBits(<<n % 256, n \div 256,
                            (65535 - n) % 256, (65535 - n) \div 256>> \o blk.data)
    ELSE IF blk.t = "fixed"
    THEN pre \o <<final>> \o genExtra(TYPE_FIXED, 2) \o genFixedData(blk.items)
    ELSE pre \o <<final>> \o genExtra(TYPE_INVALID, 2)
RECURSIVE genBlocks(_, _, _)
genBlocks(pre, desc, i) ==
    IF i > Len(desc.blocks) THEN pre
    ELSE genBlocks(genBlockBits(pre, desc.blocks[i], desc.finals[i]), desc, i + 1)
genFrame(desc) == desc.sig \o genPack(genBlocks(<< >>, desc, 1))
MzFrameBytes == [fr \in MzFrames |-> genFrame(fr)] @@ << >>
\* BitStream(byts[2:], order='little') of each of them, as a sequence of bits
MzFrameBits ==
    [fr \in MzFrames |->
        LET b == lsbBits(pySlice(MzFrameBytes[fr], 2, Len(MzFrameBytes[fr])))
        IN  SubSeq(b, 1, Len(b))] @@ << >>

\* the plaintext of a CFDATA after the plaintext hist: the blocks up to the
\* first one with BFINAL; wf is FALSE when the CFDATA is not well formed
RECURSIVE refBlocks(_, _, _, _)
refBlocks(hist, desc, i, out) ==
    IF i > Len(desc.blocks) THEN [wf |-> FALSE, out |-> out, nblk |-> i - 1]
    ELSE LET blk == desc.blocks[i]
             r   == IF blk.t = "stored" THEN [ok |-> TRUE, hist |-> hist \o blk.data]
                    ELSE IF blk.t = "fixed" THEN refExpand(hist, blk.items, 1)
                    ELSE [ok |-> FALSE, hist |-> hist]
             o   == out \o SubSeq(r.hist, Len(hist) + 1, Len(r.hist))
         IN  IF ~r.ok THEN [wf |-> FALSE, out |-> out, nblk |-> i - 1]
             ELSE IF desc.finals[i] = 1 THEN [wf |-> TRUE, out |-> o, nblk |-> i]
             ELSE refBlocks(r.hist, desc, i + 1, o)
refFrame(hist, desc) ==
    IF desc.sig # SigCK THEN [wf |-> FALSE, out |-> << >>, nblk |-> 0]
    ELSE refBlocks(hist, desc, 1, << >>)

-----------------------------------------------------------------------------
(* The MsZip driver: the consumer iterates MsZip().decompBlock(iterblk)      *)

MzIdle ==
    /\ mz_pc = "idle"
    /\ mz_byts = << >>
    /\ mz_bits = << >>
    /\ mz_off = 0
    /\ mz_final = 0
    /\ mz_msblock = << >>
    /\ mz_buff = << >>
    /\ mz_err = ""
    /\ mz_last = << >>
    /\ mz_yields = 0
    /\ mz_nfr = 0
    /\ mz_desc = MzNoFrame
    /\ mz_nblk = 0
    /\ mz_hist = << >>
    /\ mz_wf = TRUE
    /\ mz_prevok = TRUE
    /\ mz_emit = << >>

MzInit ==
    /\ mz_pc = "start"
    /\ mz_byts = << >>
    /\ mz_bits = << >>
    /\ mz_off = 0
    /\ mz_final = 0
    /\ mz_msblock = << >>
    /\ mz_buff = << >>
    /\ mz_err = ""
    /\ mz_last = << >>
    /\ mz_yields = 0
    /\ mz_nfr = 0
    /\ mz_desc = MzNoFrame
    /\ mz_nblk = 0
    /\ mz_hist = << >>
    /\ mz_wf = TRUE
    /\ mz_prevok = TRUE
    /\ mz_emit = << >>

\* what is known once the CFDATA being decoded is left behind
MzLeave ==
    \E ref \in {refFrame(mz_hist, mz_desc)} :
        /\ mz_hist' = IF mz_nfr = 0 THEN mz_hist ELSE mz_hist \o ref.out
        /\ mz_wf' = (mz_wf /\ (mz_nfr > 0 => ref.wf))
        /\ mz_prevok' = (mz_prevok /\ (mz_pc = "yielded" => mz_last = ref.out))

\* next(gen): "for frame in iterblk" takes the next CFDATA; the signature
\* test, then bits, final and msblock are set up
MzNextFrame ==
    /\ mz_pc \in {"start", "yielded"}
    /\ mz_nfr < MaxFrames
    /\ MzLeave
    /\ \E fr \in MzFrames :
         LET byts == MzFrameBytes[fr]
         IN  /\ mz_desc' = fr
             /\ mz_byts' = byts
             /\ IF pySlice(byts, 0, 2) # SigCK
                THEN /\ mz_pc' = "raised"
                     /\ mz_err' = "MsZipError"
                     /\ mz_bits' = mz_bits
                ELSE /\ mz_pc' = "block"
                     /\ mz_err' = mz_err
                     /\ mz_bits' = MzFrameBits[fr]
    /\ mz_nfr' = mz_nfr + 1
    /\ mz_off' = 0
    /\ mz_final' = 0
    /\ mz_msblock' = << >>
    /\ mz_nblk' = 0
    /\ UNCHANGED <<mz_buff, mz_last, mz_yields, mz_emit>>
    /\ UNCHANGED <<huffVars, infVars, lzVars, restVars>>

\* next(gen): iterblk has no more CFDATA, the generator returns
MzExhausted ==
    /\ mz_pc \in {"start", "yielded"}
    /\ mz_pc' = "stopped"
    /\ UNCHANGED <<mz_byts, mz_bits, mz_off, mz_final, mz_msblock, mz_buff, mz_err,
                   mz_last, mz_yields, mz_nfr, mz_desc, mz_nblk, mz_hist,
                   mz_wf, mz_prevok, mz_emit>>
    /\ UNCHANGED <<huffVars, infVars, lzVars, restVars>>

\* one round of "while not final"; after a final block the generator yields
\* bytes(msblock).  A StopIteration inside the generator ends it silently or
\* becomes a RuntimeError, depending on the Python version.
MzBlock ==
    /\ mz_pc = "block"
    /\ \E r \in {mszipBlock(mz_bits, mz_off, mz_byts, mz_buff)} :
           /\ mz_off' = r.off
           /\ mz_buff' = r.buff
           /\ mz_final' = r.final
           /\ mz_emit' = IF r.res = "end" THEN mz_emit \o r.out ELSE mz_emit
           /\ IF r.res = "end"
              THEN /\ mz_msblock' = mz_msblock \o r.out
                   /\ mz_nblk' = mz_nblk + 1
                   /\ mz_err' = mz_err
                   /\ IF r.final # 0
                      THEN /\ mz_pc' = "yielded"
                           /\ mz_last' = mz_msblock \o r.out
                           /\ mz_yields' = mz_yields + 1
                      ELSE /\ mz_pc' = "block"
                           /\ UNCHANGED <<mz_last, mz_yields>>
              ELSE /\ UNCHANGED <<mz_msblock, mz_nblk, mz_last, mz_yields>>
                   /\ IF r.res = "StopIteration"
                      THEN \/ mz_pc' = "stopped" /\ mz_err' = mz_err
                           \/ mz_pc' = "raised" /\ mz_err' = "RuntimeError"
                      ELSE mz_pc' = "raised" /\ mz_err' = r.res
    /\ UNCHANGED <<mz_byts, mz_bits, mz_nfr, mz_desc, mz_hist, mz_wf, mz_prevok>>
    /\ UNCHANGED <<huffVars, infVars, lzVars, restVars>>

MzNext == MzNextFrame \/ MzExhausted \/ MzBlock

-----------------------------------------------------------------------------
(* Generated LZX input: the streams the driver hands to the decoder.  The   *)
(* encoder is the inverse of the decoder's tables and is not part of the    *)
(* program.                                                                 *)

\* bits, most significant first, packed into 16-bit words stored low byte
\* first and padded with zeros
lzPack(bits) ==
    [n \in 1..(2 * ((Len(bits) + 15) \div 16)) |->
        LET from == 16 * ((n - 1) \div 2) + (IF n % 2 = 1 THEN 8 ELSE 0)
            v[i \in 0..8] ==
              IF i = 0 THEN 0
              ELSE 2 * v[i - 1] + (IF from + i <= Len(bits) THEN bits[from + i] ELSE 0)
        IN  v[8]]

\* v as four bytes, least significant first
lzDword(v) == [k \in 1..4 |-> Shr(v, 8 * (k - 1)) % 256]

\* the bytes of an uncompressed block: bytes below INSTR_CALL; the ten bytes
\* 00..09 for a block of ten; for a block with a call [at, val], zeros but
\* for INSTR_CALL at index at and the four bytes of val, least significant
\* first, after it
lzPayload(blk) ==
    [i \in 1..blk.n |->
        IF blk.call # << >>
        THEN IF i = blk.call[1] + 1 THEN INSTR_CALL
             ELSE IF i \in (blk.call[1] + 2)..(blk.call[1] + 5)
             THEN Shr(blk.call[2], 8 * (i - blk.call[1] - 2)) % 256
             ELSE 0
        ELSE IF blk.n = 10 THEN i - 1 ELSE ((5 * (i - 1)) % 229) + 1]

\* block lengths: short ones and ones that end at or just before a frame
LzBlockLens == (0..LzSmall) \cup {LZX_FRAME_SIZE - k : k \in 0..LzGap}

\* a block is [btype, n, r0]; a stream is [ifs, blocks, cut]: the file size
\* of the Intel header (0: flag clear), its blocks, and the number of bytes
\* missing at its end
LzBlock(btype, n, r0) == [btype |-> btype, n |-> n, r0 |-> r0, call |-> << >>]
LzCallBlock(n, at, val) ==
    [btype |-> BTYPE_UNCOMPRESSED, n |-> n, r0 |-> 1, call |-> <<at, val>>]
\* preprocessing with file size 0x100000 and a call to 0x10 at 0x200
LzCallExample ==
    [ifs |-> 1048576, blocks |-> <<LzCallBlock(530, 512, 16)>>, cut |-> 0]
\* preprocessing with a small file size: a call in the first frame, at index
\* at, and a call in the second frame, to targets on both sides of each
\* limit of the test
LzCalls ==
    {[ifs |-> 16, blocks |-> <<LzCallBlock(20, at, v)>>, cut |-> 0] :
        at \in {0, LzSmall + 1},
        v \in {-(LzSmall + 2), -(LzSmall + 1), -1, 0, 15, 16, INSTR_CALL}} \cup
    {[ifs |-> 16, blocks |-> <<LzBlock(BTYPE_UNCOMPRESSED, LZX_FRAME_SIZE, 1),
                              LzCallBlock(20, 1, v)>>, cut |-> 0] :
        v \in {-(LZX_FRAME_SIZE + 2), -(LZX_FRAME_SIZE + 1), 0}} \cup
    \* the only call of the frame in its last ten bytes, and in its last four
    {[ifs |-> j, blocks |-> <<LzCallBlock(20, at, 0)>>, cut |-> 0] :
        j \in {0, 16}, at \in {12, 17}}
\* preprocessing flag 0 and one uncompressed block of the ten bytes 00..09
LzExample == [ifs |-> 0, blocks |-> <<LzBlock(BTYPE_UNCOMPRESSED, 10, 1)>>, cut |-> 0]
\* two blocks, the second of which crosses a frame boundary
LzCrossing ==
    {[ifs |-> 0, blocks |-> <<LzBlock(BTYPE_UNCOMPRESSED, LZX_FRAME_SIZE - g, 1),
                              LzBlock(BTYPE_UNCOMPRESSED, g + 1, 1)>>, cut |-> 0] :
        g \in 1..LzGap}
LzStreams ==
    {LzExample, LzCallExample} \cup LzCrossing \cup LzCalls \cup
    {[ifs |-> 0, blocks |-> <<LzBlock(BTYPE_UNCOMPRESSED, n, 1)>>, cut |-> 0] :
        n \in LzBlockLens} \cup
    {[ifs |-> 0, blocks |-> <<LzBlock(BTYPE_UNCOMPRESSED, n, r)>>, cut |-> 0] :
        n \in {LzSmall, LZX_FRAME_SIZE - LzGap},
        r \in {LZX_FRAME_SIZE, 4 * LZX_FRAME_SIZE}} \cup
    {[ifs |-> 0, blocks |-> <<LzBlock(t, 1, 1)>>, cut |-> 0] :
        t \in {0, BTYPE_VERBATIM, BTYPE_ALIGNED}} \cup
    {[ifs |-> 0, blocks |-> <<LzBlock(BTYPE_UNCOMPRESSED, n, 1),
                              LzBlock(BTYPE_UNCOMPRESSED, 1, 1)>>, cut |-> c] :
        n \in 0..LzSmall, c \in {0, 1}} \cup
    {[ifs |-> 16, blocks |-> <<LzBlock(BTYPE_UNCOMPRESSED, 1, 1)>>, cut |-> c] :
        c \in {0, 14}}

\* the header of a block and, for an uncompressed block, the padding to the
\* next word
lzHeaderBits(pre, blk) ==
    LET h == pre \o bitvals(blk.btype, 3) \o bitvals(blk.n \div 256, 16)
               \o bitvals(blk.n % 256, 8)
    IN  IF blk.btype = BTYPE_UNCOMPRESSED
        THEN h \o [i \in 1..(16 - (Len(h) % 16)) |-> 0] ELSE h

RECURSIVE lzBlocks(_, _, _)
lzBlocks(pre, blocks, i) ==
    IF i > Len(blocks) THEN lzPack(pre)
    ELSE IF blocks[i].btype # BTYPE_UNCOMPRESSED
    THEN lzPack(lzHeaderBits(pre, blocks[i]))
    ELSE lzPack(lzHeaderBits(pre, blocks[i]))
           \o lzDword(blocks[i].r0) \o lzDword(1) \o lzDword(1)
           \o lzPayload(blocks[i])
           \o (IF blocks[i].n % 2 = 1 THEN <<0>> ELSE << >>)
           \o lzBlocks(<< >>, blocks, i + 1)

lzStreamBytes(s) ==
    LET all == lzBlocks(IF s.ifs = 0 THEN <<0>>
                        ELSE <<1>> \o bitvals(s.ifs \div 65536, 16)
                               \o bitvals(s.ifs % 65536, 16),
                        s.blocks, 1)
    IN  SubSeq(all, 1, Len(all) - s.cut)

RECURSIVE lzSum(_, _)
lzSum(blocks, i) ==
    IF i > Len(blocks) THEN 0 ELSE blocks[i].n + lzSum(blocks, i + 1)

\* the CFDATA list of a stream: one CFDATA, ab and cbUncomp
LzStreamAb == [s \in LzStreams |-> lzStreamBytes(s)] @@ << >>
LzStreamCb == [s \in LzStreams |-> lzSum(s.blocks, 1)] @@ << >>

\* the trees the client loads for decVerbatim and decAligned: sixteen main
\* symbols of four bits, four length symbols of two bits, eight aligned
\* symbols of three bits
LzMainSyms == {0, 1, 2, 65, 66, INSTR_CALL, 256, 257, 263, 264, 272, 281, 288,
               289, 320, 336}
LzMainBook == initCodeBook([s \in 1..(NUM_CHARS + 240) |->
                               IF s - 1 \in LzMainSyms THEN 4 ELSE 0])
LzLenBook == initCodeBook(<<2, 2, 2, 2>>)
LzAlignBook == initCodeBook(<<3, 3, 3, 3, 3, 3, 3, 3>>)
LzMainTree == loadCodeBook(NewHuffTree, LzMainBook).tree
LzLenTree == loadCodeBook(NewHuffTree, LzLenBook).tree
LzAlignTree == loadCodeBook(NewHuffTree, LzAlignBook).tree

\* an item is [sym, lsym, x]: a main symbol, the length symbol that follows
\* it when it asks for one, and the value of the extra bits of its offset
LzItem(sym, lsym, x) == [sym |-> sym, lsym |-> lsym, x |-> x]
LzItems ==
    {LzItem(65, 0, 0), LzItem(256, 0, 0), LzItem(257, 0, 0),
     LzItem(263, 1, 0), LzItem(264, 0, 0), LzItem(272, 0, 0),
     LzItem(281, 0, 0), LzItem(288, 0, 1), LzItem(320, 0, 5),
     LzItem(336, 0, 11)}
LzPrograms == {<<a>> : a \in LzItems} \cup {<<a, b>> : a \in LzItems, b \in LzItems}

lzCode(book, s) ==
    LET e == CHOOSE e \in {book[k] : k \in 1..Len(book)} : e[1] = s
    IN  bitvals(e[3], e[2])

\* the bytes an item decodes to
lzItemLen(it) ==
    IF it.sym < NUM_CHARS THEN 1
    ELSE IF it.sym % 8 = NUM_PRIMARY_LENGTHS
    THEN NUM_PRIMARY_LENGTHS + it.lsym + MIN_MATCH
    ELSE (it.sym % 8) + MIN_MATCH

lzItemBits(aligned, it) ==
    LET slot == (it.sym - NUM_CHARS) \div 8
        ext == xbits(slot)
    IN  lzCode(LzMainBook, it.sym)
        \o (IF it.sym >= NUM_CHARS /\ it.sym % 8 = NUM_PRIMARY_LENGTHS
            THEN lzCode(LzLenBook, it.lsym) ELSE << >>)
        \o (IF it.sym < NUM_CHARS \/ slot < 4 THEN << >>
            ELSE IF ~aligned \/ ext < 3 THEN bitvals(it.x, ext)
            ELSE bitvals(it.x \div 8, ext - 3) \o lzCode(LzAlignBook, it.x % 8))

\* the codes of the items from the i-th on, written after bits; the encoder
\* pads to a word boundary where the output, begun at pos, completes a frame
RECURSIVE lzEncode(_, _, _, _, _)
lzEncode(aligned, items, i, pos, bits) ==
    IF i > Len(items) THEN bits
    ELSE LET b == bits \o lzItemBits(aligned, items[i])
             p == pos + lzItemLen(items[i])
         IN  lzEncode(aligned, items, i + 1, p,
                      IF p % LZX_FRAME_SIZE = 0
                      THEN b \o [k \in 1..((16 - (Len(b) % 16)) % 16) |-> 0]
                      ELSE b)

RECURSIVE lzProgramLen(_, _)
lzProgramLen(items, i) ==
    IF i > Len(items) THEN 0 ELSE lzItemLen(items[i]) + lzProgramLen(items, i + 1)

\* the frames (frm.ab of each CFDATA) behind the bit stream in use
LzNoSource == [k |-> "none"]
LzFramesOf(src) ==
    IF src.k = "stream" THEN <<LzStreamAb[src.s]>>
    ELSE IF src.k = "code"
    THEN <<lzPack(lzEncode(src.aligned, src.items, 1, src.pos, << >>))>>
    ELSE << >>

-----------------------------------------------------------------------------
(* The Lzx driver: the consumer iterates Lzx(comp_type).decompBlock(iterblk) *)
(* over one stream; a client that holds a decoder loads its trees and        *)
(* iterates decVerbatim(bits, blen) or decAligned(bits, blen) itself         *)

\* typeCompress of CFFOLDER: LZX with a window of 2^15 and of 2^17 bytes, and
\* one with a window size out of range
LzCompTypes == {3 + 256 * 14, 3 + 256 * 15, 3 + 256 * 17}
\* the streams and the programs given to a decoder: all of them to a window
\* of 2^15 bytes, the example and the streams that cross a frame boundary to
\* a larger one
LzStreamsFor(o) == IF o.wbits = 15 THEN LzStreams ELSE {LzExample} \cup LzCrossing
LzProgramsFor(o) == IF o.wbits = 15 THEN LzPrograms ELSE {}

NoLzx == [wbits |-> 0, wsize |-> 0, win |-> << >>, frmcnt |-> 0, ifs |-> 0,
          winpos |-> 0, icp |-> 0, offs |-> 0, ival |-> 0,
          r0 |-> 0, r1 |-> 0, r2 |-> 0, bytmode |-> FALSE, rawcb |-> 0]
NoTrees == [mtree |-> NewHuffTree, ltree |-> NewHuffTree, atree |-> NewHuffTree]
\* the locals of decompBlock and of decUncomp, and of the block in hand: the
\* whether its decoder was reached (begun), the bit offset after its header
\* (hoff), the offset in the stream after
\* _initUncomp (boff), the bytes decUncomp has yielded for it (got), and of
\* its latest frame the write position before it (wp0) and its length (flen);
\* the number of bytes decompBlock has yielded (yld) and written to the
\* window (wrote)
NoBlock == [btype |-> 0, blen |-> 0, out |-> << >>, run |-> 0, remains |-> 0,
            flen |-> 0, begun |-> FALSE, hoff |-> 0, boff |-> 0, got |-> << >>,
            wp0 |-> 0, yld |-> 0, wrote |-> 0]
NoRun == [aligned |-> FALSE, remains |-> 0, run |-> 0, maxrun |-> 0]
\* what a round of a block decoder did: the operation, the length and the
\* offset of the match, the bits skipped by alignWord, the position slot of
\* the match and the registers R0, R1, R2 when the round began
NoStep == [op |-> "none", mlen |-> 0, moff |-> 0, algn |-> 0, slot |-> 0,
           pre |-> <<0, 0, 0>>]

\* the decoder as the operations take it, and as the variable lz_o holds it,
\* its window in pages of 256 bytes: a page of zeros is held as the empty
\* page, and a page of the payload of lzPayload as its first byte alone
ZeroPage == [i \in 1..256 |-> 0]
PayloadPage == [a \in 1..229 |-> [j \in 1..256 |-> ((a - 1 + 5 * (j - 1)) % 229) + 1]]
WinPaged(s) ==
    [r \in 1..(Len(s) \div 256) |->
        LET p == SubSeq(s, 256 * (r - 1) + 1, 256 * r)
        IN  IF p = ZeroPage THEN << >>
            ELSE IF p[1] \in 1..229 /\ p = PayloadPage[p[1]] THEN <<p[1]>>
            ELSE p]
WinPage(g) ==
    IF g = << >> THEN ZeroPage ELSE IF Len(g) = 1 THEN PayloadPage[g[1]] ELSE g
WinFlat(p) == Flat([r \in 1..Len(p) |-> WinPage(p[r])])
WinAt(p, i) == WinPage(p[((i - 1) \div 256) + 1])[((i - 1) % 256) + 1]
lzLoad(o) == [o EXCEPT !.win = WinFlat(@)]
lzStore(o) == [o EXCEPT !.win = WinPaged(@)]

LzIdle ==
    /\ lz_pc = "idle"
    /\ lz_src = LzNoSource
    /\ lz_o = NoLzx
    /\ lz_bs = NewBitStream
    /\ lz_trees = NoTrees
    /\ lz_d = NoBlock
    /\ lz_g = NoRun
    /\ lz_ret = << >>
    /\ lz_err = ""
    /\ lz_total = 0
    /\ lz_last = NoStep

\* lzx = Lzx(comp_type)
LzInit ==
    /\ \E ct \in LzCompTypes :
         \E n \in {LzxNew(ct)} :
           IF n.res = "ok"
           THEN lz_pc = "new" /\ lz_o = lzStore(n.o) /\ lz_err = ""
           ELSE lz_pc = "raised" /\ lz_o = NoLzx /\ lz_err = n.res
    /\ lz_src = LzNoSource
    /\ lz_bs = NewBitStream
    /\ lz_trees = NoTrees
    /\ lz_d = NoBlock
    /\ lz_g = NoRun
    /\ lz_ret = << >>
    /\ lz_total = 0
    /\ lz_last = NoStep

\* how a StopIteration raised in the body of a generator leaves it: as a
\* RuntimeError, or as the end of the generator in older Pythons
PEP479 == {"RuntimeError", "return"}

\* an exception res leaves the generator decompBlock
LzRaise(res) ==
    IF res = "StopIteration"
    THEN \E how \in PEP479 :
           IF how = "return" THEN lz_pc' = "stopped" /\ lz_err' = lz_err
           ELSE lz_pc' = "raised" /\ lz_err' = how
    ELSE lz_pc' = "raised" /\ lz_err' = res

\* the first next(gen): decompBlock up to "while self.rawcb"
LzxOpen ==
    /\ lz_pc = "new"
    /\ \E s \in LzStreamsFor(lz_o) :
         /\ lz_src' = [k |-> "stream", s |-> s]
         /\ \E h \in {getIntelHeader(<<LzStreamAb[s]>>, lz_o, NewBitStream)} :
              /\ lz_bs' = h.bs
              /\ IF h.res = "ok"
                 THEN /\ lz_o' = [lz_o EXCEPT !.rawcb = LzStreamCb[s], !.ifs = h.val]
                      /\ lz_pc' = "header"
                      /\ lz_err' = lz_err
                 ELSE /\ lz_o' = [lz_o EXCEPT !.rawcb = LzStreamCb[s]]
                      /\ LzRaise(h.res)
    /\ lz_d' = NoBlock
    /\ UNCHANGED <<lz_trees, lz_g, lz_ret, lz_total, lz_last>>
    /\ UNCHANGED <<huffVars, infVars, mzVars, restVars>>

\* decompBlock from "while self.rawcb" to the call of the block decoder:
\* [res, o, bs, btype, blen, hoff], hoff being the bit offset after the block
\* header
blockStart(frames, o, bs, d) ==
    LET start(p, b) ==
          Bind(getBlockHeader(frames, p, b),
            LAMBDA h :
              IF h.res # "ok"
              THEN [res |-> h.res, o |-> p, bs |-> h.bs, btype |-> d.btype,
                    blen |-> d.blen, hoff |-> h.bs.bitoff]
              ELSE IF h.btype \notin {BTYPE_VERBATIM, BTYPE_ALIGNED, BTYPE_UNCOMPRESSED}
              THEN [res |-> "KeyError", o |-> p, bs |-> h.bs, btype |-> h.btype,
                    blen |-> h.blen, hoff |-> h.bs.bitoff]
              ELSE Bind(IF h.btype = BTYPE_VERBATIM THEN initVerb(frames, p, h.bs)
                        ELSE IF h.btype = BTYPE_ALIGNED THEN initAlign(frames, p, h.bs)
                        ELSE initUncomp(frames, p, h.bs),
                     LAMBDA i : [res |-> i.res, o |-> i.o, bs |-> i.bs,
                                 btype |-> h.btype, blen |-> h.blen,
                                 hoff |-> h.bs.bitoff]))
    IN  IF d.btype = BTYPE_UNCOMPRESSED /\ d.blen % 2 = 1
        THEN Bind(readBytes(frames, bs, 1),
               LAMBDA r :
                 IF r.res # "ok"
                 THEN [res |-> r.res, o |-> [o EXCEPT !.bytmode = r.bytmode],
                       bs |-> r.bs, btype |-> d.btype, blen |-> d.blen,
                       hoff |-> r.bs.bitoff]
                 ELSE start(o, r.bs))
        ELSE start(o, bs)

\* "while self.rawcb": the generator returns, or the next block is begun
LzxHeader ==
    /\ lz_pc = "header"
    /\ IF lz_o.rawcb = 0
       THEN /\ lz_pc' = "stopped"
            /\ UNCHANGED <<lz_o, lz_bs, lz_d, lz_err>>
       ELSE \E b \in {blockStart(LzFramesOf(lz_src), lz_o, lz_bs, lz_d)} :
              /\ lz_o' = b.o
              /\ lz_bs' = b.bs
              /\ lz_d' = [lz_d EXCEPT !.btype = b.btype, !.blen = b.blen,
                                      !.run = IF b.res = "ok" THEN b.blen ELSE @,
                                      !.remains = IF b.res = "ok" THEN b.blen ELSE @,
                                      !.begun = (b.res = "ok"),
                                      !.hoff = b.hoff, !.boff = b.bs.off,
                                      !.got = << >>, !.wp0 = b.o.winpos,
                                      !.flen = 0]
              /\ IF b.res = "ok" THEN lz_pc' = "chunk" /\ lz_err' = lz_err
                 ELSE LzRaise(b.res)
    /\ UNCHANGED <<lz_src, lz_trees, lz_g, lz_ret, lz_total, lz_last>>
    /\ UNCHANGED <<huffVars, infVars, mzVars, restVars>>

\* decompBlock after its yield, or after a frame that is not yielded: the
\* write position returns to the start of a full window, run and rawcb
\* are counted down, and the block ends when run is 0
LzAfter(o, d, flen) ==
    /\ lz_o' = [o EXCEPT !.winpos = IF @ >= o.wsize THEN 0 ELSE @,
                         !.rawcb = @ - flen]
    /\ lz_d' = [d EXCEPT !.run = @ - flen]
    /\ lz_pc' = IF d.run - flen = 0 THEN "header" ELSE "chunk"

\* "for frame in self.decomps[btype][1](bits, blen)" with decUncomp: the
\* next frame, up to the yield of decompBlock if the frame completes 32768
\* bytes or is all that is left.  A StopIteration raised within decUncomp ends
\* the loop or is a RuntimeError.
LzxChunk ==
    /\ lz_pc = "chunk"
    /\ IF lz_d.remains = 0
       THEN /\ lz_pc' = "header"
            /\ UNCHANGED <<lz_o, lz_bs, lz_d, lz_ret, lz_err, lz_total, lz_last>>
       ELSE \E c \in {decUncompChunk(LzFramesOf(lz_src), lzLoad(lz_o), lz_bs,
                                      lz_d.remains)} :
              /\ lz_bs' = c.bs
              /\ IF c.res # "ok"
                 THEN /\ lz_o' = lzStore(c.o)
                      /\ UNCHANGED <<lz_d, lz_ret, lz_total, lz_last>>
                      /\ IF c.res = "StopIteration"
                         THEN \E how \in PEP479 :
                                IF how = "return"
                                THEN lz_pc' = "header" /\ lz_err' = lz_err
                                ELSE lz_pc' = "raised" /\ lz_err' = how
                         ELSE lz_pc' = "raised" /\ lz_err' = c.res
                 ELSE /\ lz_total' = lz_total + Len(c.frame)
                      /\ lz_last' = [NoStep EXCEPT !.op = "chunk"]
                      /\ IF PagedLen(lz_d.out) + Len(c.frame) = LZX_FRAME_SIZE
                            \/ Len(c.frame) = c.o.rawcb
                         THEN \E p \in {postProcess([c.o EXCEPT !.frmcnt = @ + 1],
                                                    Flat(lz_d.out) \o c.frame)} :
                                /\ lz_o' = lzStore(p.o)
                                /\ lz_d' = [lz_d EXCEPT
                                              !.out = Paged(Flat(@) \o c.frame),
                                              !.remains = c.remains,
                                              !.flen = Len(c.frame),
                                              !.got = Paged(Flat(@) \o c.frame),
                                              !.wp0 = lz_o.winpos,
                                              !.wrote = @ + Len(c.frame),
                                              !.yld = IF p.res = "ok"
                                                      THEN @ + Len(p.fix) ELSE @]
                                /\ IF p.res = "ok"
                                   THEN /\ lz_pc' = "yielded"
                                        /\ lz_ret' = Paged(p.fix)
                                        /\ lz_err' = lz_err
                                   ELSE /\ lz_pc' = "raised"
                                        /\ lz_err' = p.res
                                        /\ lz_ret' = lz_ret
                         ELSE /\ LzAfter(lzStore(c.o),
                                         [lz_d EXCEPT
                                            !.out = Paged(Flat(@) \o c.frame),
                                            !.remains = c.remains,
                                            !.flen = Len(c.frame),
                                            !.got = Paged(Flat(@) \o c.frame),
                                            !.wp0 = lz_o.winpos,
                                            !.wrote = @ + Len(c.frame)],
                                         Len(c.frame))
                              /\ UNCHANGED <<lz_ret, lz_err>>
    /\ UNCHANGED <<lz_src, lz_trees, lz_g>>
    /\ UNCHANGED <<huffVars, infVars, mzVars, restVars>>

\* next(gen) after a yield of decompBlock
LzxResume ==
    /\ lz_pc = "yielded"
    /\ LzAfter(lz_o, [lz_d EXCEPT !.out = << >>], lz_d.flen)
    /\ UNCHANGED <<lz_src, lz_bs, lz_trees, lz_g, lz_ret, lz_err, lz_total, lz_last>>
    /\ UNCHANGED <<huffVars, infVars, mzVars, restVars>>

\* the client loads the three trees, wraps the encoded items in a BitStream
\* with cb = lzx.getWordBytes and calls decVerbatim or decAligned with the
\* number of bytes the items decode to; the first next() reaches the loop
LzxCall ==
    /\ lz_pc \in {"new", "stopped"}
    /\ \E aligned \in BOOLEAN, items \in LzProgramsFor(lz_o) :
         /\ lz_src' = [k |-> "code", aligned |-> aligned, items |-> items,
                       pos |-> lz_o.winpos]
         /\ lz_g' = [aligned |-> aligned, remains |-> lzProgramLen(items, 1),
                     run |-> 0, maxrun |-> getFrameAlign(lz_o)]
    /\ lz_trees' = [mtree |-> LzMainTree, ltree |-> LzLenTree, atree |-> LzAlignTree]
    /\ lz_bs' = NewBitStream
    /\ lz_pc' = "dec"
    /\ lz_d' = NoBlock
    /\ lz_ret' = << >>
    /\ lz_last' = NoStep
    /\ UNCHANGED <<lz_o, lz_err, lz_total>>
    /\ UNCHANGED <<huffVars, infVars, mzVars, restVars>>

\* one round of "for sym in mit" of the block decoder
LzxSym ==
    /\ lz_pc = "dec"
    /\ \E r \in {decSym(lz_g.aligned, LzFramesOf(lz_src), lzLoad(lz_o), lz_bs,
                        lz_trees.mtree, lz_trees.ltree, lz_trees.atree, lz_g)} :
         /\ lz_o' = lzStore(r.o)
         /\ lz_bs' = r.bs
         /\ lz_g' = r.g
         /\ lz_last' = r.last
         /\ lz_total' = lz_total + (r.g.run - lz_g.run)
         /\ lz_ret' = IF r.res \in {"yield", "final"} THEN Paged(r.frame) ELSE lz_ret
         /\ IF r.res = "run" THEN lz_pc' = "dec" /\ lz_err' = lz_err
            ELSE IF r.res = "yield" THEN lz_pc' = "decyield" /\ lz_err' = lz_err
            ELSE IF r.res = "final" THEN lz_pc' = "decfinal" /\ lz_err' = lz_err
            ELSE IF r.res = "return" THEN lz_pc' = "decdone" /\ lz_err' = lz_err
            ELSE IF r.res = "StopIteration"
            THEN \E how \in PEP479 :
                   IF how = "return" THEN lz_pc' = "decdone" /\ lz_err' = lz_err
                   ELSE lz_pc' = "raised" /\ lz_err' = how
            ELSE lz_pc' = "raised" /\ lz_err' = r.res
    /\ UNCHANGED <<lz_src, lz_trees, lz_d>>
    /\ UNCHANGED <<huffVars, infVars, mzVars, restVars>>

\* next() after a yield of the block decoder: "remains -= run; run = 0", or
\* "raise StopIteration" after the yield of the last frame
LzxDecResume ==
    /\ lz_pc \in {"decyield", "decfinal"}
    /\ IF lz_pc = "decyield"
       THEN /\ lz_g' = [lz_g EXCEPT !.remains = @ - lz_g.run, !.run = 0]
            /\ lz_pc' = "dec"
            /\ lz_err' = lz_err
       ELSE /\ lz_g' = lz_g
            /\ \E how \in PEP479 :
                 IF how = "return" THEN lz_pc' = "decdone" /\ lz_err' = lz_err
                 ELSE lz_pc' = "raised" /\ lz_err' = how
    /\ UNCHANGED <<lz_src, lz_o, lz_bs, lz_trees, lz_d, lz_ret, lz_total, lz_last>>
    /\ UNCHANGED <<huffVars, infVars, mzVars, restVars>>

LzNext == LzxOpen \/ LzxHeader \/ LzxChunk \/ LzxResume \/ LzxCall \/ LzxSym
            \/ LzxDecResume

-----------------------------------------------------------------------------
(* The CabLab driver: a client opens one file of a cabinet by name *)

CabNames == {"a", "b", "c"}
CabTypes == {compNONE, compMSZIP, compQUANTUM, compLZX, compLZX + 1}
CabDatas ==
    SeqsOf([kind : {"deflate", "bad", "nock"}, cbUncomp : {CabBlock, 2 * CabBlock}],
           1, MaxCfData)
\* the CFFILE tables of a folder of total bytes: one file that is all of it,
\* or the first of a..c each taking a part and the last the rest
CabFile(name, from, cb) == [szName |-> name, uoffFolderStart |-> from, cbFile |-> cb]
CabFiles(total) ==
    {<<CabFile("a", 0, total)>>} \cup
    (IF MaxCfFiles < 2 THEN {}
     ELSE {<<CabFile("a", 0, cut), CabFile("b", cut, total - cut)>> :
             cut \in {0, CabBlock, total}})
Cabinets ==
    UNION {{[typeCompress |-> t, datas |-> ds, files |-> fs] :
              t \in CabTypes, fs \in CabFiles(cabSum(ds, Len(ds)))} : ds \in CabDatas}

CabIdle ==
    /\ cab_pc = "idle"
    /\ cab_in = None
    /\ cab_f = << >>
    /\ cab_uoff = 0
    /\ cab_k = 0
    /\ cab_eof = FALSE
    /\ cab_uncomp = << >>
    /\ cab_fd = << >>
    /\ cab_ndec = 0
    /\ cab_err = ""

\* cab = CabLab(fd)
CabInit ==
    /\ cab_pc = "new"
    /\ cab_in \in Cabinets
    /\ cab_f = << >>
    /\ cab_uoff = 0
    /\ cab_k = 0
    /\ cab_eof = FALSE
    /\ cab_uncomp = << >>
    /\ cab_fd = << >>
    /\ cab_ndec = 0
    /\ cab_err = ""

\* cab.openCabFile(name) up to the loop
OpenCabFile ==
    /\ cab_pc = "new"
    /\ \E name \in CabNames :
         \E cff \in {filesbyname(cab_in, name)} :
           IF cff = << >>
           THEN /\ cab_pc' = "raised"
                /\ cab_err' = "Exception"
                /\ UNCHANGED <<cab_f, cab_uoff>>
           ELSE /\ cab_pc' = "loop"
                /\ cab_f' = cff
                /\ cab_uoff' = coffCabStart(cab_in)
                /\ cab_err' = cab_err
    /\ UNCHANGED <<cab_in, cab_k, cab_eof, cab_uncomp, cab_fd, cab_ndec>>
    /\ UNCHANGED notCab

\* one round of the loop of openCabFile: the next CFDATA and the body
CabData ==
    /\ cab_pc = "loop"
    /\ \E how \in CabEofReads :
         \E n \in {iterCabData(cab_in, cab_k + 1, how)} :
           IF n.res # "ok"
           THEN /\ cab_pc' = "raised"
                /\ cab_err' = n.res
                /\ UNCHANGED <<cab_uoff, cab_k, cab_eof, cab_uncomp, cab_fd, cab_ndec>>
           ELSE \E b \in {openCabBody(cab_in, cab_f[1], cab_k + 1, cab_uoff, n.cfd,
                                      cab_eof)} :
                  /\ cab_k' = cab_k + 1
                  /\ cab_eof' = b.eof
                  /\ cab_ndec' = cab_ndec + b.ndec
                  /\ cab_uncomp' = IF b.uncomp = << >> THEN cab_uncomp ELSE b.uncomp
                  /\ cab_fd' = cab_fd \o b.wrote
                  /\ cab_uoff' = IF b.res = "next" THEN cab_uoff + n.cfd.cbUncomp
                                 ELSE cab_uoff
                  /\ cab_pc' = IF b.res = "next" THEN "loop"
                               ELSE IF b.res = "break" THEN "after" ELSE "raised"
                  /\ cab_err' = IF b.res \in {"next", "break"} THEN cab_err ELSE b.res
    /\ UNCHANGED <<cab_in, cab_f>>
    /\ UNCHANGED notCab

\* openCabFile after the loop: print(uncomp[umin:umax]) and return fd
CabReturn ==
    /\ cab_pc = "after"
    /\ IF cab_uncomp = << >>
       THEN cab_pc' = "raised" /\ cab_err' = "UnboundLocalError"
       ELSE cab_pc' = "returned" /\ cab_err' = cab_err
    /\ UNCHANGED <<cab_in, cab_f, cab_uoff, cab_k, cab_eof, cab_uncomp, cab_fd,
                   cab_ndec>>
    /\ UNCHANGED notCab

CabNext == OpenCabFile \/ CabData \/ CabReturn

-----------------------------------------------------------------------------
(* bitlab.py: the module functions bits and cast *)

LSB == <<0, 1, 2, 3, 4, 5, 6, 7>>
MSB == <<7, 6, 5, 4, 3, 2, 1, 0>>

\* the defaults of bits(byts, order='big') and cast(bitgen, bitsize, bord='big')
bitsDefaultOrder == "big"
castDefaultBord == "big"

\* bits(byts, order): every bit the generator yields, in order
bitlab_bits(byts, order) ==
    LET bord == IF order = "big" THEN MSB ELSE LSB
    IN  [k \in 1..(8 * Len(byts)) |->
           Shr(byts[((k - 1) \div 8) + 1], bord[((k - 1) % 8) + 1]) % 2]

\* cast(bitgen, bitsize, bord) on a generator that has yielded off of gen:
\* next(bitgen) raises StopIteration when gen is used up; a bord that is
\* neither 'little' nor 'big' reads nothing and returns 0
bitlab_cast(gen, off, bitsize, bord) ==
    IF bord \notin {"little", "big"} THEN [res |-> "ok", val |-> 0, off |-> off]
    ELSE IF off + bitsize > Len(gen)
    THEN [res |-> "StopIteration", val |-> 0, off |-> Len(gen)]
    ELSE LET ret[i \in 0..bitsize] ==
                 IF i = 0 THEN 0
                 ELSE IF bord = "little"
                      THEN ret[i - 1] + Shl(gen[off + i], i - 1)
                      ELSE ret[i - 1] + Shl(gen[off + i], bitsize - i)
         IN  [res |-> "ok", val |-> ret[bitsize], off |-> off + bitsize]

-----------------------------------------------------------------------------
(* The bitlab driver: a client makes a bit generator and reads from it *)

BitByteVals == {65, 66, 67}
BitOrders == {"big", "little"}
BitBords == {"big", "little", "other"}

BitIdle ==
    /\ bit_pc = "idle" /\ bit_byts = << >> /\ bit_order = "" /\ bit_off = 0
    /\ bit_casts = << >> /\ bit_len = None /\ bit_err = ""

BitInit ==
    /\ bit_pc = "new" /\ bit_byts = << >> /\ bit_order = "" /\ bit_off = 0
    /\ bit_casts = << >> /\ bit_len = None /\ bit_err = ""

\* bits = bitlab.bits(byts, order)
BitsOpen ==
    /\ bit_pc = "new"
    /\ \E byts \in SeqsOf(BitByteVals, 1, MaxBitBytes), order \in BitOrders :
         /\ bit_byts' = byts
         /\ bit_order' = order
    /\ bit_pc' = "open"
    /\ UNCHANGED <<bit_off, bit_casts, bit_len, bit_err>>
    /\ UNCHANGED notBit

\* bitlab.cast(bits, bitsize, bord)
BitsCast ==
    /\ bit_pc = "open"
    /\ Len(bit_casts) < MaxCasts
    /\ \E bitsize \in 0..MaxCastBits, bord \in BitBords :
         \E r \in {bitlab_cast(bitlab_bits(bit_byts, bit_order), bit_off,
                               bitsize, bord)} :
           /\ bit_off' = r.off
           /\ IF r.res = "ok"
              THEN /\ bit_casts' = Append(bit_casts,
                                         [bitsize |-> bitsize, bord |-> bord,
                                          val |-> r.val])
                   /\ UNCHANGED <<bit_pc, bit_err>>
              ELSE /\ bit_pc' = "raised"
                   /\ bit_err' = r.res
                   /\ UNCHANGED bit_casts
    /\ UNCHANGED <<bit_byts, bit_order, bit_len>>
    /\ UNCHANGED notBit

\* len(list(bits)): the bits the generator has yet to yield
BitsList ==
    /\ bit_pc = "open"
    /\ bit_len' = Len(bitlab_bits(bit_byts, bit_order)) - bit_off
    /\ bit_off' = Len(bitlab_bits(bit_byts, bit_order))
    /\ bit_pc' = "drained"
    /\ UNCHANGED <<bit_byts, bit_order, bit_casts, bit_err>>
    /\ UNCHANGED notBit

BitNext == BitsOpen \/ BitsCast \/ BitsList

-----------------------------------------------------------------------------
(* common.py: KeyCache, a defaultdict whose __missing__ asks lookmeth *)

\* KeyCache(lookmeth): an empty dict
KeyCacheNew(lookmeth) == [lookmeth |-> lookmeth, items |-> << >>]

\* the mutation that returns the value without storing it
missing_noStore(self, key) ==
    [self |-> self, ret |-> self.lookmeth[key], called |-> 1]

\* KeyCache.__missing__(key)
missing(self, key) ==
    LET valu == self.lookmeth[key]
    IN  [self |-> [self EXCEPT !.items = (key :> valu) @@ self.items],
         ret |-> valu, called |-> 1]

\* cache[key]: dict.__getitem__, which calls __missing__ for a key that is
\* not in the dict
getitem(self, key) ==
    IF key \in DOMAIN self.items
    THEN [self |-> self, ret |-> self.items[key], called |-> 0]
    ELSE missing(self, key)

-----------------------------------------------------------------------------
(* The KeyCache driver: a client makes a cache over a function and reads keys *)

KcKeys == {10, 20, 30}
\* what a lookup may return, None included
KcVals == {None, 30, 40}

KcIdle ==
    /\ kc_pc = "idle" /\ kc_self = KeyCacheNew(<< >>)
    /\ kc_hits = [k \in KcKeys |-> 0] /\ kc_reads = [k \in KcKeys |-> 0]
    /\ kc_last = << >>

KcInit ==
    /\ kc_pc = "new" /\ kc_self = KeyCacheNew(<< >>)
    /\ kc_hits = [k \in KcKeys |-> 0] /\ kc_reads = [k \in KcKeys |-> 0]
    /\ kc_last = << >>

RECURSIVE KcSum(_, _)
KcSum(f, S) == IF S = {} THEN 0
               ELSE LET k == CHOOSE x \in S : TRUE IN f[k] + KcSum(f, S \ {k})

\* cache = KeyCache(woot)
KcNew ==
    /\ kc_pc = "new"
    /\ \E lookmeth \in [KcKeys -> KcVals] : kc_self' = KeyCacheNew(lookmeth)
    /\ kc_pc' = "live"
    /\ UNCHANGED <<kc_hits, kc_reads, kc_last>>
    /\ UNCHANGED notKc

\* cache[key]
KcRead ==
    /\ kc_pc = "live"
    /\ KcSum(kc_reads, KcKeys) < MaxReads
    /\ \E key \in KcKeys :
         \E r \in {getitem(kc_self, key)} :
           /\ kc_self' = r.self
           /\ kc_hits' = [kc_hits EXCEPT ![key] = @ + r.called]
           /\ kc_reads' = [kc_reads EXCEPT ![key] = @ + 1]
           /\ kc_last' = <<[key |-> key, ret |-> r.ret, called |-> r.called,
                            nth |-> kc_reads[key] + 1]>>
    /\ UNCHANGED kc_pc
    /\ UNCHANGED notKc

KcNext == KcNew \/ KcRead

-----------------------------------------------------------------------------
(* formats/fat32.py: allocation table and cluster chains.  The file system
   is [fat, clusters]: fat stands for the allocation tables, which
   _setFatEntry keeps equal and _getFatEntry reads as one; clusters[0] and
   clusters[1] are the empty reserved clusters. *)

FAT_ENTRY_MASK == 268435455
CLUSTER_TYPES_UNUSED == 0
CLUSTER_TYPES_BAD == 268435447
CLUSTER_TYPES_LAST == 268435448
LAST_CLUSTER_CHAIN_ENTRIES ==
    {CLUSTER_TYPES_UNUSED, CLUSTER_TYPES_BAD, CLUSTER_TYPES_LAST}

total_cluster_count(fs) == Cardinality(DOMAIN fs.fat)
\* the size of a cluster in bytes, scaled down
cluster_size == ClusterSize

getFatEntry(fs, index) == fs.fat[index]
setFatEntry(fs, index, value) == [fs EXCEPT !.fat[index] = value]
isClusterFree(fs, i) == getFatEntry(fs, i) = CLUSTER_TYPES_UNUSED
markClusterFree(fs, i) == setFatEntry(fs, i, CLUSTER_TYPES_UNUSED)
markClusterUsed(fs, i, next_cluster) == setFatEntry(fs, i, next_cluster)

\* getFreeClusterNumber: the first free entry from 0 on, None if there is none
getFreeClusterNumber(fs) ==
    LET free == {i \in 0..(total_cluster_count(fs) - 1) : isClusterFree(fs, i)}
    IN  IF free = {} THEN None ELSE CHOOSE i \in free : \A j \in free : i <= j

\* FILE_ALLOCATION_TABLE.getClusterChain: follow the table from entry until
\* an UNUSED, BAD or LAST value, which ends the list; an entry outside the
\* table is an IndexError, a cycle never returns
RECURSIVE fatClusterChain(_, _, _)
fatClusterChain(fat, entry0, ret0) ==
    LET entry == IF entry0 >= CLUSTER_TYPES_LAST THEN CLUSTER_TYPES_LAST ELSE entry0
        ret == Append(ret0, entry)
    IN  IF entry \in LAST_CLUSTER_CHAIN_ENTRIES THEN [res |-> "ok", chain |-> ret]
        ELSE IF entry \notin DOMAIN fat THEN [res |-> "IndexError", chain |-> ret]
        ELSE IF Len(ret) > Cardinality(DOMAIN fat) THEN [res |-> "loop", chain |-> ret]
        ELSE fatClusterChain(fat, fat[entry] % (FAT_ENTRY_MASK + 1), ret)

\* FAT32.getClusterChain
getClusterChain(fs, cluster_num) ==
    LET c == fatClusterChain(fs.fat, cluster_num % (FAT_ENTRY_MASK + 1), << >>)
    IN  IF c.res # "ok" THEN c
        ELSE IF \E i \in 1..Len(c.chain) : c.chain[i] = CLUSTER_TYPES_BAD
        THEN [res |-> "CorruptFileSystemError", chain |-> c.chain]
        ELSE c

\* the entries of a chain before its first LAST
RECURSIVE beforeLast(_)
beforeLast(chain) ==
    IF chain = << >> \/ Head(chain) = CLUSTER_TYPES_LAST THEN << >>
    ELSE <<Head(chain)>> \o beforeLast(Tail(chain))

\* getContent(start_cluster_num)
getContent(fs, start_cluster_num) ==
    IF isClusterFree(fs, start_cluster_num)
    THEN [res |-> "FileDoesNotExistException", data |-> << >>]
    ELSE LET c == getClusterChain(fs, start_cluster_num)
         IN  IF c.res # "ok" THEN [res |-> c.res, data |-> << >>]
             ELSE LET nums == beforeLast(c.chain)
                  IN  [res |-> "ok",
                       data |-> Concat([i \in 1..Len(nums) |-> fs.clusters[nums[i]]])]

\* while cluster_chain[-1] == CLUSTER_TYPES.LAST: cluster_chain.pop(-1)
RECURSIVE popLast(_)
popLast(chain) ==
    IF chain # << >> /\ chain[Len(chain)] = CLUSTER_TYPES_LAST
    THEN popLast(SubSeq(chain, 1, Len(chain) - 1))
    ELSE chain

\* setContent, an existing chain longer than needed: the entries
\* cluster_chain[i] for i in range(num_new_clusters_needed, -1) are marked
\* free, then cluster_chain[num_new_clusters_needed] is marked LAST
clipChain(fs, chain, needed) ==
    LET n == Len(chain)
        freed == {chain[j] : j \in (needed + 1)..(n - 1)}
    IN  [fs EXCEPT !.fat = [k \in DOMAIN fs.fat |->
            IF k = chain[needed + 1] THEN CLUSTER_TYPES_LAST
            ELSE IF k \in freed THEN CLUSTER_TYPES_UNUSED
            ELSE fs.fat[k]]]

\* setContent, the scan for free clusters: for i in range(2, total), append
\* i if it is unused, stop once the list has the length needed
RECURSIVE scanFree(_, _, _, _)
scanFree(fs, i, cluster_numbers, needed) ==
    IF i >= total_cluster_count(fs) THEN cluster_numbers
    ELSE LET nums == IF getFatEntry(fs, i) = CLUSTER_TYPES_UNUSED
                     THEN Append(cluster_numbers, i) ELSE cluster_numbers
         IN  IF Len(nums) = needed THEN nums
             ELSE scanFree(fs, i + 1, nums, needed)

\* the mutation that leaves the data as long as it is
padded_none(data) == data

\* setContent: pad the data with NULs to a multiple of the cluster size
padded(data) ==
    IF Len(data) % cluster_size # 0
    THEN data \o [i \in 1..(cluster_size - (Len(data) % cluster_size)) |-> 0]
    ELSE data

\* setContent: store the chunks in the clusters, then link the chain
storeChain(fs, nums, data) ==
    [fat |-> [k \in DOMAIN fs.fat |->
                IF \E j \in 1..Len(nums) : nums[j] = k
                THEN LET j == CHOOSE j \in 1..Len(nums) :
                                 nums[j] = k /\ \A h \in (j + 1)..Len(nums) : nums[h] # k
                     IN  IF j = Len(nums) THEN CLUSTER_TYPES_LAST ELSE nums[j + 1]
                ELSE fs.fat[k]],
     clusters |-> [k \in DOMAIN fs.clusters |->
                IF \E j \in 1..Len(nums) :
                      nums[j] = k /\ (j - 1) * cluster_size < Len(data)
                THEN LET j == CHOOSE j \in 1..Len(nums) :
                                 /\ nums[j] = k /\ (j - 1) * cluster_size < Len(data)
                                 /\ \A h \in (j + 1)..Len(nums) :
                                      ~(nums[h] = k /\ (h - 1) * cluster_size < Len(data))
                     IN  SubSeq(data, (j - 1) * cluster_size + 1,
                                IF j * cluster_size < Len(data)
                                THEN j * cluster_size ELSE Len(data))
                ELSE fs.clusters[k]]]

\* setContent: num_clusters_needed for data of n bytes, b'\x00' for no data
fatNeeded(n) == ((IF n = 0 THEN 1 ELSE n) + cluster_size - 1) \div cluster_size

\* setContent(start_cluster_num, data): [res, fs, ret]
setContent(fs, start_cluster_num, data0) ==
    LET data == IF Len(data0) = 0 THEN <<0>> ELSE data0
        needed == (Len(data) + cluster_size - 1) \div cluster_size
    IN  IF isClusterFree(fs, start_cluster_num)
        THEN LET nums == scanFree(fs, 2, << >>, needed)
             IN  IF Len(nums) # needed
                 THEN [res |-> "DiskFullException", fs |-> fs, ret |-> None]
                 ELSE [res |-> "ok", fs |-> storeChain(fs, nums, padded(data)),
                       ret |-> nums[1]]
        ELSE LET c == getClusterChain(fs, start_cluster_num)
             IN  IF c.res # "ok" THEN [res |-> c.res, fs |-> fs, ret |-> None]
                 ELSE LET chain == popLast(c.chain)
                          keep == SubSeq(chain, 1, IF needed < Len(chain)
                                                   THEN needed ELSE Len(chain))
                          fs1 == IF needed - Len(chain) < 0
                                 THEN clipChain(fs, chain, needed) ELSE fs
                          nums == scanFree(fs1, 2, keep, needed)
                      IN  IF Len(nums) # needed
                          THEN [res |-> "DiskFullException", fs |-> fs1, ret |-> None]
                          ELSE [res |-> "ok",
                                fs |-> storeChain(fs1, nums, padded(data)),
                                ret |-> nums[1]]

\* addContent(data): the first free cluster is handed to setContent and
\* returned; with no free cluster, isClusterFree(None) raises
addContent(fs, data) ==
    LET num == getFreeClusterNumber(fs)
    IN  IF num = None THEN [res |-> "NoFreeCluster", fs |-> fs, ret |-> None]
        ELSE LET r == setContent(fs, num, data)
             IN  IF r.res # "ok" THEN r ELSE [r EXCEPT !.ret = num]

\* delContent(start_cluster_number)
delContent(fs, start_cluster_number) ==
    IF isClusterFree(fs, start_cluster_number)
    THEN [res |-> "FileDoesNotExistException", fs |-> fs]
    ELSE LET c == getClusterChain(fs, start_cluster_number)
         IN  IF c.res # "ok" THEN [res |-> c.res, fs |-> fs]
             ELSE LET nums == beforeLast(c.chain)
                  IN  [res |-> "ok",
                       fs |-> [fs EXCEPT !.fat = [k \in DOMAIN fs.fat |->
                                 IF \E j \in 1..Len(nums) : nums[j] = k
                                 THEN CLUSTER_TYPES_UNUSED ELSE fs.fat[k]]]]

\* bytes.rstrip(b"\x00")
RECURSIVE rstrip(_)
rstrip(data) ==
    IF data # << >> /\ data[Len(data)] = 0
    THEN rstrip(SubSeq(data, 1, Len(data) - 1)) ELSE data

-----------------------------------------------------------------------------
(* The FAT32 driver: a client stores, replaces, reads and deletes data runs *)

\* the file system the tests make: entries 0 and 1 reserved, the root
\* directory in cluster 2, every other cluster free and holding what the
\* disk held before (NULs, or bytes set earlier)
FatNewFs(junk) ==
    [fat |-> [k \in 0..(FatClusters - 1) |->
                IF k = 0 THEN CLUSTER_TYPES_LAST
                ELSE IF k = 1 THEN FAT_ENTRY_MASK
                ELSE IF k = 2 THEN CLUSTER_TYPES_LAST
                ELSE CLUSTER_TYPES_UNUSED],
     clusters |-> [k \in 0..(FatClusters - 1) |->
                IF k < 2 THEN << >> ELSE [i \in 1..cluster_size |-> junk]]]

\* data of whole clusters of one letter, and one of a single byte
FatDatas ==
    {[i \in 1..(n * cluster_size) |-> b] : n \in 0..MaxDataClusters, b \in {65, 66}}
      \cup {<<65>>}

FatIdle ==
    /\ fat_pc = "idle" /\ fat_fs = FatNewFs(0) /\ fat_want = << >>
    /\ fat_hist = << >> /\ fat_ret = << >>

FatInit ==
    /\ fat_pc = "live" /\ fat_fs \in {FatNewFs(0), FatNewFs(105)}
    /\ fat_want = << >> /\ fat_hist = << >> /\ fat_ret = << >>

FatCalled(op, n) == fat_hist' = Append(fat_hist, [op |-> op, n |-> n])

\* p = fs.addContent(v)
FatAdd ==
    /\ fat_pc = "live" /\ Len(fat_hist) < MaxFatOps
    /\ Cardinality(DOMAIN fat_want) < MaxFatFiles
    /\ \E v \in FatDatas :
         \E r \in {addContent(fat_fs, v)} :
           /\ fat_fs' = r.fs
           /\ fat_want' = IF r.res = "ok"
                          THEN [k \in DOMAIN fat_want \cup {r.ret} |->
                                  IF k = r.ret THEN v ELSE fat_want[k]]
                          ELSE fat_want
           /\ fat_ret' = <<[op |-> "add", p |-> r.ret, res |-> r.res,
                            data |-> << >>, deleted |-> FALSE]>>
           /\ FatCalled("add", Len(v))
    /\ UNCHANGED fat_pc
    /\ UNCHANGED notFat

\* fs.setContent(p, v)
FatSet ==
    /\ fat_pc = "live" /\ Len(fat_hist) < MaxFatOps
    /\ \E p \in DOMAIN fat_want, v \in FatDatas :
         \E r \in {setContent(fat_fs, p, v)} :
           /\ fat_fs' = r.fs
           /\ fat_want' = IF r.res = "ok" THEN [fat_want EXCEPT ![p] = v]
                          ELSE fat_want
           /\ fat_ret' = <<[op |-> "set", p |-> p, res |-> r.res,
                            data |-> << >>, deleted |-> FALSE]>>
           /\ FatCalled("set", Len(v))
    /\ UNCHANGED fat_pc
    /\ UNCHANGED notFat

\* the start cluster that the call before this one deleted
FatDeleted ==
    {fat_ret[i].p : i \in {j \in 1..Len(fat_ret) :
                             fat_ret[j].op = "del" /\ fat_ret[j].res = "ok"}}

\* fs.getContent(p), of a run in use or of the run just deleted
FatGet ==
    /\ fat_pc = "live" /\ Len(fat_hist) < MaxFatOps
    /\ \E p \in DOMAIN fat_want \cup FatDeleted :
         \E r \in {getContent(fat_fs, p)} :
           /\ fat_ret' = <<[op |-> "get", p |-> p, res |-> r.res,
                            data |-> r.data, deleted |-> p \in FatDeleted]>>
           /\ FatCalled("get", 0)
    /\ UNCHANGED <<fat_pc, fat_fs, fat_want>>
    /\ UNCHANGED notFat

\* fs.delContent(p)
FatDel ==
    /\ fat_pc = "live" /\ Len(fat_hist) < MaxFatOps
    /\ \E p \in DOMAIN fat_want :
         \E r \in {delContent(fat_fs, p)} :
           /\ fat_fs' = r.fs
           /\ fat_want' = IF r.res = "ok"
                          THEN [k \in DOMAIN fat_want \ {p} |-> fat_want[k]]
                          ELSE fat_want
           /\ fat_ret' = <<[op |-> "del", p |-> p, res |-> r.res,
                            data |-> << >>, deleted |-> FALSE]>>
           /\ FatCalled("del", 0)
    /\ UNCHANGED fat_pc
    /\ UNCHANGED notFat

FatNext == FatAdd \/ FatSet \/ FatGet \/ FatDel

-----------------------------------------------------------------------------
(* Generated dynamic blocks: what the driver hands to getDynHuffBlock.  The
   encoder is not part of the program. *)

\* the bits of a stream are those of whole bytes: the last byte is filled
\* with the bit b
genWholeBytes(bits, b) == bits \o [i \in 1..((8 - (Len(bits) % 8)) % 8) |-> b]

\* an entry of the code length sequence: a length, or a run
DynLit(k) == [sym |-> k, n |-> 1]
DynRun(sym, n) == [sym |-> sym, n |-> n]
\* n zeros, 11 <= n <= 138
DynZeros(n) == DynRun(REP_TINY_LEN, n)

\* the block as bits: HLIT = 257, HDIST, HCLEN = 19, every code length symbol
\* with a code of 5 bits (symbol s has the code s), the entries, the data
genDynItem(it) ==
    bitvals(it.sym, 5) \o
    (IF it.sym = COPY_LEN THEN genExtra(it.n - 3, 2)
     ELSE IF it.sym = REP_BIG_LEN THEN genExtra(it.n - 3, 3)
     ELSE IF it.sym = REP_TINY_LEN THEN genExtra(it.n - 11, 7)
     ELSE << >>)
genDynBits(p) ==
    genWholeBytes(genExtra(0, 5) \o genExtra(p.hdist - 1, 5) \o genExtra(15, 4)
                    \o Concat([i \in 1..19 |-> genExtra(5, 3)])
                    \o Concat([i \in 1..Len(p.items) |-> genDynItem(p.items[i])])
                    \o p.data, 0)

\* lengths that end g entries before the end of code_lens, then the entry
\* tail, then single zeros up to the end if the tail does not reach it
DynNearEnd(hdist, g, tail) ==
    [hdist |-> hdist,
     items |-> <<DynLit(1), DynZeros(138), DynZeros(257 + hdist - 139 - g), tail>>
                 \o [i \in 1..(IF tail.n < g THEN g - tail.n ELSE 0) |-> DynLit(0)],
     data |-> << >>]
DynTails ==
    {DynLit(3), DynRun(COPY_LEN, 3), DynRun(COPY_LEN, 4), DynRun(COPY_LEN, 6),
     DynRun(REP_BIG_LEN, 3), DynRun(REP_BIG_LEN, 10), DynZeros(11), DynZeros(12)}
DynGaps == (1..DynGap) \cup {11}

\* literals 'A' (code 0) and end of block (code 1) and nothing else, with
\* the distance lengths given
DynLiterals(dists, n) ==
    [hdist |-> Len(dists),
     items |-> <<DynZeros(65), DynLit(1), DynZeros(138), DynZeros(52), DynLit(1)>>
                 \o [i \in 1..Len(dists) |-> DynLit(dists[i])],
     data |-> [i \in 1..n |-> 0] \o <<1>>]

DynPrograms ==
    {DynNearEnd(hd, g, t) : hd \in {1, 2}, g \in DynGaps, t \in DynTails} \cup
    {[hdist |-> 1, items |-> <<DynRun(COPY_LEN, n)>>, data |-> << >>] : n \in {3, 6}} \cup
    {[hdist |-> 1, data |-> << >>,
      items |-> <<DynRun(REP_BIG_LEN, 3), DynRun(COPY_LEN, 3), DynZeros(138),
                  DynZeros(114)>>]} \cup
    {DynLiterals(d, n) : d \in {<<0>>, <<1>>, <<0, 0>>, <<1, 1>>}, n \in 0..MaxDynLits}

-----------------------------------------------------------------------------
(* The dynamic block driver: a client calls Inflate().getDynHuffBlock(bits) *)

DynIdle ==
    /\ dyn_pc = "idle" /\ dyn_prog = << >> /\ dyn_bits = << >> /\ dyn_h = << >>
    /\ dyn_c = << >> /\ dyn_ret = << >> /\ dyn_err = ""

DynInit ==
    /\ dyn_pc = "new"
    /\ \E p \in DynPrograms : dyn_prog = p /\ dyn_bits = genDynBits(p)
    /\ dyn_h = << >> /\ dyn_c = << >> /\ dyn_ret = << >> /\ dyn_err = ""

\* getDynHuffBlock up to the loop over code_lens
DynCall ==
    /\ dyn_pc = "new"
    /\ \E h \in {dynStart(dyn_bits, 0)} :
         /\ dyn_h' = [hlit |-> h.hlit, hdist |-> h.hdist, len_tree |-> h.len_tree]
         /\ dyn_c' = h.c
         /\ IF h.res = "ok" THEN dyn_pc' = "lens" /\ dyn_err' = dyn_err
            ELSE dyn_pc' = "raised" /\ dyn_err' = h.res
    /\ UNCHANGED <<dyn_prog, dyn_bits, dyn_ret>>
    /\ UNCHANGED notDyn

\* one round of "while i < len(code_lens)", or its end
DynLen ==
    /\ dyn_pc = "lens"
    /\ \E c \in {dynLenIter(dyn_h.len_tree, dyn_bits, dyn_c)} :
         /\ dyn_c' = c
         /\ IF c.res = "run" THEN UNCHANGED <<dyn_pc, dyn_err>>
            ELSE IF c.res = "done" THEN dyn_pc' = "trees" /\ dyn_err' = dyn_err
            ELSE dyn_pc' = "raised" /\ dyn_err' = c.res
    /\ UNCHANGED <<dyn_prog, dyn_bits, dyn_h, dyn_ret>>
    /\ UNCHANGED notDyn

\* the trees of the block and _decHuffBlock on a new Inflate
DynDecode ==
    /\ dyn_pc = "trees"
    /\ \E r \in {dynBlocks(dyn_bits, << >>, dyn_h.hlit, dyn_h.hdist, dyn_c)} :
         IF r.res = "end"
         THEN /\ dyn_pc' = "returned"
              /\ dyn_ret' = <<r.out, r.buff>>
              /\ dyn_err' = dyn_err
         ELSE /\ dyn_pc' = "raised"
              /\ dyn_ret' = dyn_ret
              /\ dyn_err' = r.res
    /\ UNCHANGED <<dyn_prog, dyn_bits, dyn_h, dyn_c>>
    /\ UNCHANGED notDyn

DynNext == DynCall \/ DynLen \/ DynDecode

-----------------------------------------------------------------------------
(* LzxHuffTree.updateLengths (lzx.py).  self.lens is a list of 2000 numbers,
   nearly all of them 0: it is kept as its length and its entries that are
   not 0, with the indices of Python. *)

NUM_SECONDARY_LENGTHS == 249
\* "self.lens = [0] * 2000"
LzxLensLen == 2000

LensNew == [len |-> LzxLensLen, nz |-> [k \in {} |-> 0]]

\* self.lens[i] for 0 <= i
lensAt(l, i) == IF i \in DOMAIN l.nz THEN l.nz[i] ELSE 0

\* "self.lens[i:i+run] = [v]*run": the slice ends at the end of the list,
\* and the list grows when the run is longer than the slice
lensFill(l, i, run, v) ==
    LET a == IF i > l.len THEN l.len ELSE i
        to == (a..(a + run - 1))
        dom == (DOMAIN l.nz \ to) \cup (IF v = 0 THEN {} ELSE to)
    IN  [len |-> IF i + run > l.len THEN a + run ELSE l.len,
         nz |-> [k \in dom |-> IF k \in to THEN v ELSE l.nz[k]]]

\* "sym = self.lens[i] - sym; if sym < 0: sym += 17"
lensDelta(old, sym) == IF old - sym < 0 THEN old - sym + 17 ELSE old - sym

\* updateLengths up to its loop: the pre-tree of 20 widths of 4 bits
updStart(bits, off) ==
    LET tlens == [k \in 1..20 |-> bitlab_cast(bits, off + 4 * (k - 1), 4, "big").val]
    IN  IF off + 80 > Len(bits)
        THEN [res |-> "StopIteration", off |-> Len(bits), ptree |-> NewHuffTree]
        ELSE Bind(loadCodeBook(NewHuffTree, initCodeBook(tlens)),
                  LAMBDA t : [res |-> IF t.err # "none" THEN "OffHuffTree" ELSE "ok",
                              off |-> off + 80, ptree |-> t.tree])

\* one round of "while i < stop"; t is [lens, i, off, res]
updIter(ptree, bits, t) ==
    LET s == huffNext(ptree, bits, t.off)
        raise(res, o) == [t EXCEPT !.res = res, !.off = o]
        err(r) == IF r = "eof" THEN "StopIteration" ELSE "OffHuffTree"
        zeros(n, base) ==
            LET x == bitlab_cast(bits, s.off, n, "big")
            IN  IF x.res # "ok" THEN raise(x.res, x.off)
                ELSE [t EXCEPT !.lens = lensFill(@, t.i, x.val + base, 0),
                               !.i = @ + x.val + base, !.off = x.off]
    IN  IF s.res # "sym" THEN raise(err(s.res), s.off)
        ELSE IF s.sym = 17 THEN zeros(4, 4)
        ELSE IF s.sym = 18 THEN zeros(5, 20)
        ELSE IF s.sym = 19
        THEN LET x == bitlab_cast(bits, s.off, 1, "big")
                 n == huffNext(ptree, bits, x.off)
             IN  IF x.res # "ok" THEN raise(x.res, x.off)
                 ELSE IF n.res # "sym" THEN raise(err(n.res), n.off)
                 ELSE IF t.i >= t.lens.len THEN raise("IndexError", n.off)
                 ELSE [t EXCEPT !.lens = lensFill(@, t.i, x.val + 4,
                                                  lensDelta(lensAt(@, t.i), n.sym)),
                                !.i = @ + x.val + 4, !.off = n.off]
        ELSE IF t.i >= t.lens.len THEN raise("IndexError", s.off)
        ELSE [t EXCEPT !.lens = lensFill(@, t.i, 1, lensDelta(lensAt(@, t.i), s.sym)),
                       !.i = @ + 1, !.off = s.off]

-----------------------------------------------------------------------------
(* Generated pre-tree streams: what the driver hands to updateLengths.  The
   encoder is not part of the program. *)

UpdSym(sym) == [sym |-> sym, run |-> 1, nsym |-> 0]
UpdRun(sym, run) == [sym |-> sym, run |-> run, nsym |-> 0]
UpdSame(run, nsym) == [sym |-> 19, run |-> run, nsym |-> nsym]

\* the 20 pre-tree widths are 5, so that symbol s has the code s of 5 bits
genUpdItem(it) ==
    bitvals(it.sym, 5) \o
    (IF it.sym = 17 THEN bitvals(it.run - 4, 4)
     ELSE IF it.sym = 18 THEN bitvals(it.run - 20, 5)
     ELSE IF it.sym = 19 THEN bitvals(it.run - 4, 1) \o bitvals(it.nsym, 5)
     ELSE << >>)
genUpdBits(items) ==
    genWholeBytes(Concat([i \in 1..20 |-> bitvals(5, 4)])
                    \o Concat([i \in 1..Len(items) |-> genUpdItem(items[i])]), 1)

\* n entries of 0, by the longest runs
genUpdZeros(n) ==
    [i \in 1..(n \div 51) |-> UpdRun(18, 51)] \o
    (IF n % 51 >= 20 THEN <<UpdRun(18, n % 51)>>
     ELSE IF n % 51 >= 4 THEN <<UpdRun(17, n % 51)>>
     ELSE [i \in 1..(n % 51) |-> UpdSym(0)])

\* zeros up to g entries before stop, the entry tail, and single lengths up
\* to stop if the tail does not reach it
UpdNearStop(start, stop, g, tail) ==
    genUpdZeros(stop - g - start) \o <<tail>>
      \o [i \in 1..(IF tail.run < g THEN g - tail.run ELSE 0) |-> UpdSym(1)]
UpdTails ==
    {UpdSym(5), UpdSym(16), UpdRun(17, 4), UpdRun(18, 20), UpdSame(4, 3),
     UpdSame(5, 16), UpdSame(4, 18), UpdSame(5, 19)}
UpdGaps == (1..UpdGap) \cup {5}
\* the streams of a call, one of them ending before stop is reached
UpdPrograms(start, stop) ==
    {UpdNearStop(start, stop, g, t) : g \in UpdGaps, t \in UpdTails}
      \cup {genUpdZeros(stop - start - 1)}

\* position slots of the window of 2^15 bytes
UpdOffs == slots[1] * 8
\* Lzx._initVerb: mtree.updateLengths(bits, 0, NUM_CHARS), then
\* mtree.updateLengths(bits, NUM_CHARS, NUM_CHARS + self.offs), for every
\* block; ltree.updateLengths(bits, 0, NUM_SECONDARY_LENGTHS)
updRange(tree, k) ==
    IF tree = "ltree" THEN [start |-> 0, stop |-> NUM_SECONDARY_LENGTHS]
    ELSE IF k % 2 = 1 THEN [start |-> 0, stop |-> NUM_CHARS]
    ELSE [start |-> NUM_CHARS, stop |-> NUM_CHARS + UpdOffs]

-----------------------------------------------------------------------------
(* The length array driver: a client calls updateLengths on one tree *)

UpdIdle ==
    /\ upd_pc = "idle" /\ upd_tree = "" /\ upd_progs = << >> /\ upd_bits = << >>
    /\ upd_args = << >> /\ upd_old = << >> /\ upd_lens = << >> /\ upd_c = << >>
    /\ upd_err = ""

UpdInit ==
    /\ upd_pc = "new"
    /\ upd_tree \in {"mtree", "ltree"}
    /\ upd_progs = << >> /\ upd_bits = << >> /\ upd_args = << >>
    /\ upd_old = LensNew /\ upd_lens = LensNew /\ upd_c = << >> /\ upd_err = ""

\* updateLengths(bits, start, stop) up to its loop
UpdCall ==
    /\ upd_pc \in {"new", "returned"}
    /\ Len(upd_progs) < MaxUpdCalls
    /\ \E a \in {updRange(upd_tree, Len(upd_progs) + 1)} :
       \E p \in UpdPrograms(a.start, a.stop) :
       \E bits \in {genUpdBits(p)} :
       \E h \in {updStart(bits, 0)} :
         /\ upd_progs' = Append(upd_progs, p)
         /\ upd_bits' = bits
         /\ upd_args' = a
         /\ upd_old' = upd_lens
         /\ upd_c' = [ptree |-> h.ptree, i |-> a.start, off |-> h.off]
         /\ IF h.res = "ok"
            THEN upd_pc' = (IF a.start < a.stop THEN "loop" ELSE "returned")
                 /\ upd_err' = upd_err
            ELSE upd_pc' = "raised" /\ upd_err' = h.res
    /\ UNCHANGED upd_tree
    /\ UNCHANGED upd_lens
    /\ UNCHANGED notUpd

\* one round of the loop, and the return when i has reached stop
UpdRound ==
    /\ upd_pc = "loop"
    /\ \E t \in {updIter(upd_c.ptree, upd_bits,
                         [lens |-> upd_lens, i |-> upd_c.i, off |-> upd_c.off,
                          res |-> "run"])} :
         /\ upd_lens' = t.lens
         /\ upd_c' = [upd_c EXCEPT !.i = t.i, !.off = t.off]
         /\ IF t.res # "run" THEN upd_pc' = "raised" /\ upd_err' = t.res
            ELSE /\ upd_pc' = (IF t.i < upd_args.stop THEN "loop" ELSE "returned")
                 /\ upd_err' = upd_err
    /\ UNCHANGED <<upd_tree, upd_progs, upd_bits, upd_args, upd_old>>
    /\ UNCHANGED notUpd

UpdNext == UpdCall \/ UpdRound

-----------------------------------------------------------------------------
(* The match copy driver: a decoder with a window of 2^15 bytes that holds
   decoded data stands at some write position, and the block decoder copies
   one match *)

\* the windows: byte k at index i is a function of i
CopyWindow(k) == [i \in 1..LZX_FRAME_SIZE |-> ((i - 1) * k + 1) % 251]
\* write positions, offsets and lengths of the matches
CopyPositions == (0..CopyNear) \cup {LZX_FRAME_SIZE - j : j \in 1..CopyNear}
CopyOffsets == (1..CopyNear) \cup {LZX_FRAME_SIZE - j : j \in 0..1}
CopyLengths == MIN_MATCH..MaxCopyLen

CpIdle ==
    /\ cp_pc = "idle" /\ cp_o = NoLzx /\ cp_old = NoLzx /\ cp_m = << >>
    /\ cp_err = ""

CpInit ==
    /\ cp_pc = "new"
    /\ \E k \in {1, 7}, pos \in CopyPositions :
         cp_o = lzStore([LzxNew(3 + 256 * 15).o EXCEPT !.win = CopyWindow(k),
                                                       !.winpos = pos])
    /\ cp_old = NoLzx /\ cp_m = << >> /\ cp_err = ""

\* decVerbatim / decAligned: the copy of a match of length mlen at offset moff
CpMatch ==
    /\ cp_pc = "new"
    /\ \E moff \in CopyOffsets, mlen \in CopyLengths :
       \E r \in {matchCopy(lzLoad(cp_o), moff, mlen, 0)} :
         /\ cp_m' = [moff |-> moff, mlen |-> mlen]
         /\ cp_old' = cp_o
         /\ cp_o' = lzStore(r.o)
         /\ IF r.res = "ok" THEN cp_pc' = "copied" /\ cp_err' = cp_err
            ELSE cp_pc' = "raised" /\ cp_err' = r.res
    /\ UNCHANGED notCp

CpNext == CpMatch

\* the drivers that follow the four decoders are idle
RestIdle == CabIdle /\ BitIdle /\ KcIdle /\ FatIdle /\ DynIdle /\ UpdIdle /\ CpIdle

-----------------------------------------------------------------------------
(* One specification per driver; the other drivers stay idle *)

InitHuff == HuffInit /\ InfIdle /\ MzIdle /\ LzIdle /\ RestIdle
SpecHuff == InitHuff /\ [][HuffNext]_vars

InitInflate == InfInit /\ HuffIdle /\ MzIdle /\ LzIdle /\ RestIdle
SpecInflate == InitInflate /\ [][InfNext]_vars

InitMsZip == MzInit /\ HuffIdle /\ InfIdle /\ LzIdle /\ RestIdle
SpecMsZip == InitMsZip /\ [][MzNext]_vars

InitLzx == LzInit /\ HuffIdle /\ InfIdle /\ MzIdle /\ RestIdle
SpecLzx == InitLzx /\ [][LzNext]_vars

DecodersIdle == HuffIdle /\ InfIdle /\ MzIdle /\ LzIdle

InitCab == CabInit /\ DecodersIdle /\ BitIdle /\ KcIdle /\ FatIdle /\ DynIdle /\ UpdIdle /\ CpIdle
SpecCab == InitCab /\ [][CabNext]_vars

InitBit == BitInit /\ DecodersIdle /\ CabIdle /\ KcIdle /\ FatIdle /\ DynIdle /\ UpdIdle /\ CpIdle
SpecBit == InitBit /\ [][BitNext]_vars

InitKc == KcInit /\ DecodersIdle /\ CabIdle /\ BitIdle /\ FatIdle /\ DynIdle /\ UpdIdle /\ CpIdle
SpecKc == InitKc /\ [][KcNext]_vars

InitFat == FatInit /\ DecodersIdle /\ CabIdle /\ BitIdle /\ KcIdle /\ DynIdle /\ UpdIdle /\ CpIdle
SpecFat == InitFat /\ [][FatNext]_vars

InitDyn == DynInit /\ DecodersIdle /\ CabIdle /\ BitIdle /\ KcIdle /\ FatIdle /\ UpdIdle /\ CpIdle
SpecDyn == InitDyn /\ [][DynNext]_vars

InitUpd == UpdInit /\ DecodersIdle /\ CabIdle /\ BitIdle /\ KcIdle /\ FatIdle /\ DynIdle /\ CpIdle
SpecUpd == InitUpd /\ [][UpdNext]_vars

InitCp ==
    CpInit /\ DecodersIdle /\ CabIdle /\ BitIdle /\ KcIdle /\ FatIdle /\ DynIdle /\ UpdIdle
SpecCp == InitCp /\ [][CpNext]_vars

-----------------------------------------------------------------------------
(* Properties of the HuffTree driver *)

\* RFC1951 3.2.2 stated directly: bl_count[0] = 0, next_code[L] =
\* (next_code[L-1] + bl_count[L-1]) << 1, and the symbols of one width take
\* consecutive codes in symbol order.
RfcCount(symbits, L) ==
    IF L = 0 THEN 0 ELSE Cardinality({i \in 1..Len(symbits) : symbits[i] = L})
RECURSIVE RfcFirstCode(_, _)
RfcFirstCode(symbits, L) ==
    IF L = 0 THEN 0
    ELSE 2 * (RfcFirstCode(symbits, L - 1) + RfcCount(symbits, L - 1))
RfcCode(symbits, sym) ==
    RfcFirstCode(symbits, symbits[sym + 1])
      + Cardinality({j \in 0..(sym - 1) : symbits[j + 1] = symbits[sym + 1]})
RfcUsed(symbits) == {s \in 0..(Len(symbits) - 1) : symbits[s + 1] # 0}
RfcBook(symbits) ==
    [k \in 1..Cardinality(RfcUsed(symbits)) |->
        LET s == CHOOSE s \in RfcUsed(symbits) :
                    Cardinality({t \in RfcUsed(symbits) : t < s}) = k - 1
        IN  <<s, symbits[s + 1], RfcCode(symbits, s)>>]

\* C1: initCodeBook returns, in ascending symbol order, exactly one (symbol,
\* width, code) entry for every symbol of non-zero width and none for a symbol
\* of width zero, with the RFC1951 canonical codes; the widths
\* (3,3,3,3,3,2,4,4) give the codes 010 011 100 101 110 00 1110 1111.
C1_CanonicalCodeBook ==
    h_pc # "new" =>
        /\ h_book = RfcBook(h_symbits)
        /\ h_symbits = Rfc1951Example =>
              h_book = << <<0, 3, 2>>, <<1, 3, 3>>, <<2, 3, 4>>, <<3, 3, 5>>,
                          <<4, 3, 6>>, <<5, 2, 0>>, <<6, 4, 14>>, <<7, 4, 15>> >>

\* a table with a zero width between symbols of equal and of different widths
C1_Witness ==
    /\ h_pc = "booked"
    /\ h_symbits = <<2, 0, 1, 2>>
    /\ h_book = << <<0, 2, 2>>, <<2, 1, 0>>, <<3, 2, 3>> >>

\* every code fits in its declared width and no code is a prefix of another
FitsWidth(e) == e[3] < 2 ^ e[2]
IsPrefixOf(a, b) == a[2] <= b[2] /\ Shr(b[3], b[2] - a[2]) = a[3]
PrefixCode(book) ==
    /\ \A i \in 1..Len(book) : FitsWidth(book[i])
    /\ \A i, j \in 1..Len(book) : i # j => ~IsPrefixOf(book[i], book[j])

\* Kraft's inequality over the positive widths, scaled by 2^maxbits
Kraft(symbits) ==
    LET M == maxbitsOf(symbits)
        sum[i \in 0..Len(symbits)] ==
            IF i = 0 THEN 0
            ELSE sum[i - 1] + (IF symbits[i] = 0 THEN 0 ELSE 2 ^ (M - symbits[i]))
    IN  sum[Len(symbits)] <= 2 ^ M

\* C2 as stated: for every width table initCodeBook accepts (it rejects
\* none), the codes are a prefix code and the positive widths satisfy Kraft.
C2_Original ==
    h_pc # "new" => PrefixCode(h_book) /\ Kraft(h_symbits)

\* C2 amended: for every width table whose positive widths satisfy Kraft's
\* inequality, the codes initCodeBook returns are a prefix code.
C2_KraftGivesPrefixCode ==
    (h_pc # "new" /\ Kraft(h_symbits)) => PrefixCode(h_book)

C2_Witness ==
    /\ h_pc = "booked"
    /\ h_symbits = <<2, 1, 0, 2>>
    /\ Kraft(h_symbits)
    /\ Len(h_book) = 3

\* C3: after loadCodeBook, the bits of every entry's code, most significant
\* first, decode to exactly that entry's symbol and leave the decoder at the
\* root; the codes of several entries decode to their symbols in order.
C3_DecodeInverts ==
    h_pc = "decoded" => (h_out = h_fed /\ h_end = "root")

\* the node at which addHuffNode ends for a codebook entry
huffEndNode(entry) == (2 ^ entry[2]) + (entry[3] % (2 ^ entry[2]))

\* entries i < j of the codebook that end at one node, or name one symbol
huffDuplicates ==
    {ij \in (1..Len(h_book)) \X (1..Len(h_book)) :
       /\ ij[1] < ij[2]
       /\ \/ huffEndNode(h_book[ij[1]]) = huffEndNode(h_book[ij[2]])
          \/ h_book[ij[1]][1] = h_book[ij[2]][1]}

\* C20: addHuffNode raises whenever the path of the new code ends at a node
\* that already holds a symbol, symbol 0 included, and whenever the symbol
\* already has a code: a codebook that loaded without an error has no two
\* entries for one node and no two for one symbol.
C20_DuplicateRaises ==
    h_pc \in {"loaded", "decoded"} => huffDuplicates = {}

\* the same where the entry loaded first is of a symbol other than 0
C20_NonZeroSymbols ==
    h_pc \in {"loaded", "decoded"} =>
      \A ij \in huffDuplicates : h_book[ij[1]][1] = 0

-----------------------------------------------------------------------------
(* inflate.py: back-references *)

\* C5: a back-reference of length m and distance d, 1 <= d <= length of the
\* history, appends exactly m bytes to the block output and the same m bytes
\* to the history, and every appended byte equals the byte d positions before
\* it in the history as extended so far (for m < d, m = d and m > d).
C5_BackReferenceCopy ==
    (/\ inf_last.op = "match"
     /\ inf_last.dist >= 1
     /\ inf_last.dist <= Len(inf_last.pbuff))
    => LET m == inf_last.mlen
           d == inf_last.dist
           h == Len(inf_last.pbuff)
           o == Len(inf_last.pout)
       IN  /\ Len(inf_d.buff) = h + m
           /\ Len(inf_d.out) = o + m
           /\ SubSeq(inf_d.buff, 1, h) = inf_last.pbuff
           /\ SubSeq(inf_d.out, 1, o) = inf_last.pout
           /\ \A j \in 1..m : /\ inf_d.buff[h + j] = inf_d.buff[h + j - d]
                               /\ inf_d.out[o + j] = inf_d.buff[h + j]

\* a match longer than its distance over a history of two different bytes
C5_Witness ==
    /\ inf_last.op = "match"
    /\ inf_last.mlen > inf_last.dist
    /\ inf_last.dist = 2
    /\ inf_last.pbuff = <<65, 66>>
    /\ inf_d.out = <<65, 66, 65, 66, 65>>
    /\ inf_d.buff = inf_d.out

\* the other two cases of C5: a match shorter than, and as long as, its distance
C5_ShorterSeen ==
    /\ inf_last.op = "match"
    /\ inf_last.mlen < inf_last.dist
    /\ inf_last.dist <= Len(inf_last.pbuff)
C5_EqualSeen ==
    /\ inf_last.op = "match"
    /\ inf_last.mlen = inf_last.dist
    /\ inf_last.dist <= Len(inf_last.pbuff)

\* C6: a back-reference whose distance is larger than the history fails with
\* an error, emits no byte and appends nothing to the history.
C6_DistanceBeyondHistoryFails ==
    (inf_last.op = "match" /\ inf_last.dist > Len(inf_last.pbuff))
    => /\ inf_pc = "raised"
       /\ inf_d.out = inf_last.pout
       /\ inf_d.buff = inf_last.pbuff

-----------------------------------------------------------------------------
(* mszip.py: MsZip.decompBlock *)

\* C4: a stored block is the identity: for a CFDATA that is 'CK' and one
\* final stored block with LEN = n, NLEN = ~n and n payload bytes,
\* decompBlock yields exactly the n payload bytes.
C4_StoredBlockIdentity ==
    (/\ mz_pc = "yielded"
     /\ mz_desc.sig = SigCK
     /\ Len(mz_desc.blocks) = 1
     /\ mz_desc.blocks[1].t = "stored"
     /\ mz_desc.finals[1] = 1)
    => mz_last = mz_desc.blocks[1].data

\* C7: decompBlock raises an error for the first CFDATA that does not start
\* with 'CK'; what was yielded for the CFDATA before it is their plaintext,
\* and nothing is yielded for the offending CFDATA.
C7_BadSignature ==
    (mz_nfr > 0 /\ mz_desc.sig # SigCK /\ mz_wf)
    => /\ mz_pc = "raised"
       /\ mz_err = "MsZipError"
       /\ mz_yields = mz_nfr - 1
       /\ mz_prevok

\* C8: for k well-formed CFDATA decompBlock yields k byte strings in order;
\* each is the concatenation of the outputs of the blocks of its CFDATA up to
\* and including the first with BFINAL = 1, and no later block is decoded.
C8_OneYieldPerFrame ==
    (mz_nfr > 0 /\ mz_wf /\ refFrame(mz_hist, mz_desc).wf)
    => /\ mz_pc # "raised"
       /\ mz_prevok
       /\ mz_pc = "block" => mz_yields = mz_nfr - 1
       /\ mz_pc = "stopped" => mz_yields = mz_nfr /\ mz_err = ""
       /\ mz_pc = "yielded" =>
            /\ mz_yields = mz_nfr
            /\ mz_last = refFrame(mz_hist, mz_desc).out
            /\ mz_nblk = refFrame(mz_hist, mz_desc).nblk

-----------------------------------------------------------------------------
(* Properties of the Lzx driver *)

\* C9: in every state of an Lzx decoder winpos < wsize, and when a frame is
\* yielded right after a match copy of length m, the last m bytes yielded are
\* the m window bytes that end at winpos, window[(winpos - m) mod wsize ..].
C9_WindowInvariant ==
    lz_pc \notin {"idle", "raised"} =>
      /\ lz_o.winpos < lz_o.wsize
      /\ (lz_pc \in {"decyield", "decfinal"} /\ lz_last.op = "match") =>
           /\ PagedLen(lz_ret) >= lz_last.mlen
           /\ \A j \in 1..lz_last.mlen :
                PagedAt(lz_ret, PagedLen(lz_ret) - lz_last.mlen + j)
                  = WinAt(lz_o.win,
                          ((lz_o.winpos - lz_last.mlen + j - 1) % lz_o.wsize) + 1)

\* C10: while decVerbatim or decAligned decodes a block, whenever a round of
\* the symbol loop, a literal or a match, brings the number of bytes decoded
\* to a multiple of 32768, the bit offset of the stream is a multiple of 16
\* before the next symbol is read.
C10_FrameAlignment ==
    (/\ lz_pc \in {"dec", "decyield", "decfinal"}
     /\ lz_last.op \in {"lit", "match"}
     /\ lz_total % LZX_FRAME_SIZE = 0)
    => lz_bs.bitoff % 16 = 0

\* a match completes a frame in the middle of a block and alignWord has
\* skipped bits
C10_Witness ==
    /\ lz_pc = "decyield"
    /\ lz_last.op = "match"
    /\ lz_total > 0
    /\ lz_total % LZX_FRAME_SIZE = 0
    /\ lz_last.algn > 0
    /\ lz_g.run < lz_g.remains

\* C11: R0 = R1 = R2 = 1 at construction, and after every match decoded by
\* decVerbatim or decAligned, (a, b, c) being the registers before it:
\* slot 0 leaves (a, b, c), slot 1 gives (b, a, c), slot 2 gives (c, b, a),
\* any other slot gives (d, a, b) for the offset d it decoded; in every case
\* R0 is the offset used for the copy.
C11_RecentOffsets ==
    /\ lz_pc = "new" => <<lz_o.r0, lz_o.r1, lz_o.r2>> = <<1, 1, 1>>
    /\ (lz_pc \in {"dec", "decyield", "decfinal"} /\ lz_last.op = "match") =>
         LET a == lz_last.pre[1]
             b == lz_last.pre[2]
             c == lz_last.pre[3]
         IN  /\ lz_o.r0 = lz_last.moff
             /\ <<lz_o.r0, lz_o.r1, lz_o.r2>> =
                  CASE lz_last.slot = 0 -> <<a, b, c>>
                    [] lz_last.slot = 1 -> <<b, a, c>>
                    [] lz_last.slot = 2 -> <<c, b, a>>
                    [] OTHER -> <<lz_last.moff, a, b>>

\* a repeat match of slot 2 decoded while the three registers differ
C11_Witness ==
    /\ lz_pc \in {"dec", "decyield", "decfinal"}
    /\ lz_last.op = "match"
    /\ lz_last.slot = 2
    /\ lz_last.pre[1] # lz_last.pre[2]
    /\ lz_last.pre[2] # lz_last.pre[3]
    /\ lz_last.pre[1] # lz_last.pre[3]

\* the stream a decompBlock is reading, and whether it has begun an
\* uncompressed block of it
lzStream == LzStreamAb[lz_src.s]
lzInUncomp ==
    /\ lz_src.k = "stream"
    /\ lz_pc \in {"chunk", "yielded", "header", "stopped"}
    /\ lz_d.btype = BTYPE_UNCOMPRESSED
    /\ lz_d.begun
lzLittle(byts, k) ==
    byts[k + 1] + 256 * byts[k + 2] + 65536 * byts[k + 3] + 16777216 * byts[k + 4]

\* C12: in an uncompressed block of length n the decoder takes 1 to 16 bits
\* after the header to reach a 16-bit boundary, sets R0, R1, R2 from the next
\* twelve stream bytes, three little-endian 32-bit values, then emits the
\* next n stream bytes in stream order and writes them to the window, each
\* chunk within one 32768-byte frame; without preprocessing decompBlock
\* yields these bytes.  With wbits 17, flag 0 and one block of the ten bytes
\* 00..09 the output is these ten bytes.
C12_UncompressedBlock ==
    /\ lzInUncomp =>
         LET pad == 8 * (lz_d.boff - 12) - lz_d.hoff
             n == PagedLen(lz_d.got)
         IN  /\ pad \in 1..16
             /\ (lz_d.hoff + pad) % 16 = 0
             /\ lz_o.r0 = lzLittle(lzStream, lz_d.boff - 12)
             /\ lz_o.r1 = lzLittle(lzStream, lz_d.boff - 8)
             /\ lz_o.r2 = lzLittle(lzStream, lz_d.boff - 4)
             /\ n = lz_d.blen - lz_d.remains
             /\ lz_pc \in {"header", "stopped"} => n = lz_d.blen
             /\ Flat(lz_d.got) = SubSeq(lzStream, lz_d.boff + 1, lz_d.boff + n)
             /\ lz_d.flen > 0 =>
                  /\ SubSeq(WinFlat(lz_o.win), lz_d.wp0 + 1, lz_d.wp0 + lz_d.flen)
                       = SubSeq(Flat(lz_d.got), n - lz_d.flen + 1, n)
                  /\ lz_d.wp0 \div LZX_FRAME_SIZE
                       = (lz_d.wp0 + lz_d.flen - 1) \div LZX_FRAME_SIZE
             /\ (lz_pc = "yielded" /\ lz_o.ifs = 0) => lz_ret = lz_d.out
    /\ (lz_src.k = "stream" /\ lz_src.s = LzExample /\ lz_o.wbits = 17) =>
         /\ lz_pc # "raised"
         /\ lz_pc \in {"yielded", "stopped"} =>
              /\ Flat(lz_ret) = [i \in 1..10 |-> i - 1]
              /\ SubSeq(WinFlat(lz_o.win), 1, 10) = Flat(lz_ret)

\* the example has been decoded with a window of 2^17 bytes
C12_Witness ==
    /\ lzInUncomp
    /\ lz_pc = "yielded"
    /\ lz_src.s = LzExample
    /\ lz_o.wbits = 17
    /\ Flat(lz_ret) = <<0, 1, 2, 3, 4, 5, 6, 7, 8, 9>>

\* the call bytes the decoder translates in a frame of n bytes whose call
\* bytes are at indices
lzMarkers(indices, n) ==
    IF indices = {} THEN << >>
    ELSE LET first == CHOOSE i \in indices : \A j \in indices : i <= j
         IN  intelMarkers(indices, n, first, <<first>>)
\* what a frame raw, yielded after preprocessing, has to be at its index k:
\* the byte of the relative offset if k is one of the four bytes after a
\* translated call byte whose absolute offset is in range, else the raw byte
lzTranslated(raw, icp0, ifs, ms, k) ==
    IF \E j \in 1..Len(ms) : k \in (ms[j] + 1)..(ms[j] + 4)
    THEN LET m == ms[CHOOSE j \in 1..Len(ms) : k \in (ms[j] + 1)..(ms[j] + 4)]
             curpos == icp0 + m
             absoff == raw[m + 2] + 256 * raw[m + 3] + 65536 * raw[m + 4]
                         + 16777216 * (IF raw[m + 5] >= 128 THEN raw[m + 5] - 256
                                       ELSE raw[m + 5])
             reloff == IF absoff >= 0 THEN absoff - curpos ELSE absoff + ifs
         IN  IF -curpos <= absoff /\ absoff < ifs
             THEN (reloff \div (2 ^ (8 * (k - m - 1)))) % 256
             ELSE raw[k + 1]
    ELSE raw[k + 1]

\* C13: in a frame yielded after x86 preprocessing, the four bytes after a
\* translated 0xE8 byte at output position curpos (the bytes of earlier
\* frames plus its index), read as a signed little-endian absoff, are the
\* little-endian 32-bit value of absoff - curpos if 0 <= absoff < ifs, of
\* absoff + ifs if -curpos <= absoff < 0, and unchanged otherwise; every
\* other byte is unchanged.  With ifs = 0x100000, curpos = 0x200 and bytes
\* 10 00 00 00 the four bytes become 0xFFFFFE10.
C13_IntelTranslation ==
    (lz_pc = "yielded" /\ lz_o.ifs # 0) =>
       LET raw == Flat(lz_d.out)
           fix == Flat(lz_ret)
           icp0 == lz_o.icp - Len(raw)
           ms == lzMarkers({i \in 0..(Len(raw) - 1) : raw[i + 1] = INSTR_CALL},
                           Len(raw))
       IN  /\ Len(fix) = Len(raw)
           /\ \A k \in 0..(Len(raw) - 1) :
                fix[k + 1] = lzTranslated(raw, icp0, lz_o.ifs, ms, k)
           /\ lz_src.s = LzCallExample =>
                SubSeq(fix, 513, 517) = <<INSTR_CALL, 16, 254, 255, 255>>

\* the example has been translated
C13_Witness ==
    /\ lz_pc = "yielded"
    /\ lz_src.k = "stream"
    /\ lz_src.s = LzCallExample
    /\ lz_o.ifs = 1048576
    /\ lz_o.icp = 530
    /\ SubSeq(Flat(lz_d.out), 513, 517) = <<INSTR_CALL, 16, 0, 0, 0>>
    /\ SubSeq(Flat(lz_ret), 513, 517) = <<INSTR_CALL, 16, 254, 255, 255>>

\* a stream that lacks no byte and whose blocks have the types of LZX
lzWellFormed ==
    /\ lz_src.k = "stream"
    /\ lz_src.s.cut = 0
    /\ \A i \in 1..Len(lz_src.s.blocks) :
         lz_src.s.blocks[i].btype
           \in {BTYPE_VERBATIM, BTYPE_ALIGNED, BTYPE_UNCOMPRESSED}

\* C16: decompBlock over a well-formed stream raises nothing; what it yields
\* are the bytes written to the window since the yield before, so that the
\* bytes yielded are the bytes written, each once and in order; and when it
\* ends it has yielded as many bytes as the sum of cbUncomp.
C16_ExactlyOnce ==
    lzWellFormed =>
      /\ lz_pc # "raised"
      /\ lz_pc = "yielded" =>
           /\ lz_ret = lz_d.out
           /\ lz_d.yld = lz_d.wrote
      /\ lz_pc = "stopped" =>
           /\ lz_d.yld = lz_d.wrote
           /\ lz_d.yld = LzStreamCb[lz_src.s]

\* the same of the streams of uncompressed blocks that ask for no
\* preprocessing
C16_UncompressedOnly ==
    (lzWellFormed /\ lz_src.s.ifs = 0
       /\ \A i \in 1..Len(lz_src.s.blocks) :
            lz_src.s.blocks[i].btype = BTYPE_UNCOMPRESSED)
    => C16_ExactlyOnce

-----------------------------------------------------------------------------
(* Properties of the CabLab driver *)

\* an MSZIP folder whose CFDATA are all well formed
cabWellFormed ==
    /\ cab_in.typeCompress = compMSZIP
    /\ \A k \in 1..Len(cab_in.datas) : cab_in.datas[k].kind = "deflate"

\* C14: openCabFile of a file of the CFFILE table of a well-formed cabinet
\* returns, and what it has written to fd are the cbFile bytes of the
\* folder's plaintext from uoffFolderStart on.
C14_Extraction ==
    (cab_pc \in {"returned", "raised"} /\ cab_f # << >> /\ cabWellFormed) =>
       /\ cab_pc = "returned"
       /\ cab_fd = SubSeq(cabPlain(cab_in), cab_f[1].uoffFolderStart + 1,
                          cab_f[1].uoffFolderStart + cab_f[1].cbFile)

\* C15: openCabFile of a file of a folder whose typeCompress is Quantum or
\* unknown ends with an unsupported-compression error, and deco.decompress
\* is never called for it.
C15_Unsupported ==
    (cab_pc \notin {"idle", "new"} /\ cab_f # << >>
       /\ cab_in.typeCompress \notin {compNONE, compMSZIP, compLZX}) =>
       /\ cab_ndec = 0
       /\ cab_pc \notin {"returned", "after"}
       /\ cab_pc = "raised" => cab_err = "UnsupportedCompression"

-----------------------------------------------------------------------------
(* Properties of the bitlab driver *)

\* every call of cast so far took the default bord
bitDefaultCasts ==
    \A i \in 1..Len(bit_casts) : bit_casts[i].bord = castDefaultBord

\* C17: with the default arguments, bits(b'A') followed by cast(bits, 5) and
\* cast(bits, 3) gives 1 and then 2; the defaults deliver the bits of each
\* byte least significant first and the first bit read is the least
\* significant of the result; and bits yields 8 bits for each byte.
C17_DefaultBits ==
    /\ (bit_pc = "drained" /\ bit_casts = << >>) => bit_len = 8 * Len(bit_byts)
    /\ bit_off <= 8 * Len(bit_byts)
    /\ (bit_pc = "open" /\ bit_order = bitsDefaultOrder /\ bitDefaultCasts
          /\ bit_byts = <<65>>) =>
         /\ (Len(bit_casts) >= 1 /\ bit_casts[1].bitsize = 5)
              => bit_casts[1].val = 1
         /\ (Len(bit_casts) = 2 /\ bit_casts[1].bitsize = 5
               /\ bit_casts[2].bitsize = 3)
              => bit_casts[2].val = 2

\* what the functions do with their defaults: the bits of each byte most
\* significant first, the first bit read the most significant of the result,
\* so that 0x41 reads as 8 and then 1; 8 bits for each byte
bitDefaultsAreBig ==
    /\ (bit_pc = "drained" /\ bit_casts = << >>) => bit_len = 8 * Len(bit_byts)
    /\ (bit_pc = "open" /\ bit_order = bitsDefaultOrder /\ bitDefaultCasts
          /\ bit_byts = <<65>>) =>
         /\ (Len(bit_casts) >= 1 /\ bit_casts[1].bitsize = 5)
              => bit_casts[1].val = 8
         /\ (Len(bit_casts) = 2 /\ bit_casts[1].bitsize = 5
               /\ bit_casts[2].bitsize = 3)
              => bit_casts[2].val = 1

-----------------------------------------------------------------------------
(* Properties of the KeyCache driver *)

\* C18: lookmeth is called at most once for each key: the first read of a
\* key calls it and stores what it returned, every later read of the key
\* returns the stored value and calls nothing; three reads of key 10 and one
\* of key 20 are two calls.
C18_LookupOnce ==
    kc_pc = "live" =>
      /\ \A k \in KcKeys :
           /\ kc_hits[k] = (IF kc_reads[k] = 0 THEN 0 ELSE 1)
           /\ (k \in DOMAIN kc_self.items) = (kc_reads[k] > 0)
           /\ k \in DOMAIN kc_self.items => kc_self.items[k] = kc_self.lookmeth[k]
      /\ \A i \in 1..Len(kc_last) :
           /\ kc_last[i].ret = kc_self.lookmeth[kc_last[i].key]
           /\ kc_last[i].called = (IF kc_last[i].nth = 1 THEN 1 ELSE 0)
      /\ (kc_reads = [k \in KcKeys |-> IF k = 10 THEN 3 ELSE IF k = 20 THEN 1 ELSE 0])
           => KcSum(kc_hits, KcKeys) = 2

\* the reads of the test: key 10 three times and key 20 once, the last read
\* a later read of key 10, under a lookup that returns None for it
C18_Witness ==
    /\ kc_pc = "live"
    /\ kc_reads = [k \in KcKeys |-> IF k = 10 THEN 3 ELSE IF k = 20 THEN 1 ELSE 0]
    /\ kc_last # << >> /\ kc_last[1].key = 10 /\ kc_last[1].nth = 3
    /\ kc_self.lookmeth[10] = None
    /\ KcSum(kc_hits, KcKeys) = 2

-----------------------------------------------------------------------------
(* Properties of the FAT32 driver *)

\* C19: after p = addContent(v1), getContent(p) without its trailing NULs is
\* v1; after setContent(p, v2) it is v2, whether v2 is shorter than, as long
\* as or longer than v1; what getContent returns is a multiple of the
\* cluster size long; after delContent(p), getContent(p) raises
\* FileDoesNotExistException.
C19_ContentRoundTrip ==
    fat_pc = "live" =>
      /\ \A p \in DOMAIN fat_want :
           LET g == getContent(fat_fs, p)
           IN  /\ g.res = "ok"
               /\ rstrip(g.data) = fat_want[p]
               /\ Len(g.data) % cluster_size = 0
      /\ \A p \in FatDeleted :
           getContent(fat_fs, p).res = "FileDoesNotExistException"
      /\ \A i \in 1..Len(fat_ret) :
           fat_ret[i].op = "get" =>
             IF fat_ret[i].deleted
             THEN fat_ret[i].res = "FileDoesNotExistException"
             ELSE /\ fat_ret[i].res = "ok"
                  /\ rstrip(fat_ret[i].data) = fat_want[fat_ret[i].p]
                  /\ Len(fat_ret[i].data) % cluster_size = 0

\* two clusters stored, replaced by one cluster, and read
C19_Witness ==
    /\ fat_pc = "live"
    /\ fat_hist = <<[op |-> "add", n |-> 2 * cluster_size],
                    [op |-> "set", n |-> cluster_size],
                    [op |-> "get", n |-> 0]>>
    /\ fat_ret[1].res = "ok"
    /\ fat_ret[1].data = [i \in 1..cluster_size |-> 66]

-----------------------------------------------------------------------------
(* Properties of the history buffer and of stored blocks *)

\* the blocks of the first CFDATA returned so far are all of type t
mzOnly(t) ==
    /\ mz_nfr = 1
    /\ \A i \in 1..mz_nblk : mz_desc.blocks[i].t = t

\* C21: when a block has returned, Inflate.buff is the last min(32768, N)
\* bytes of the N bytes the blocks of this instance have returned so far,
\* whatever their types and over all CFDATA; so it is never longer than 32768.
C21_HistoryIsTail ==
    (mz_pc \in {"block", "yielded"} /\ mz_nblk > 0) =>
      /\ mz_buff = pySlice(mz_emit, IF Len(mz_emit) > MAX_HIST
                                    THEN Len(mz_emit) - MAX_HIST ELSE 0,
                           Len(mz_emit))
      /\ Len(mz_buff) <= MAX_HIST

\* the same while every block so far was a fixed Huffman block
C21_FixedOnly == mzOnly("fixed") => C21_HistoryIsTail

\* the bits of a CFDATA up to the end of its block n, as generated
mzBitsThrough(desc, n) ==
    genBlocks(<< >>, [desc EXCEPT !.blocks = SubSeq(@, 1, n),
                                  !.finals = SubSeq(@, 1, n)], 1)

\* block n of the CFDATA being decoded is a stored block and the blocks
\* before it are fixed Huffman blocks
mzStoredAt(n) ==
    /\ mz_desc.sig = SigCK
    /\ n \in 1..Len(mz_desc.blocks)
    /\ mz_desc.blocks[n].t = "stored"
    /\ \A i \in 1..(n - 1) : mz_desc.blocks[i].t = "fixed" /\ mz_desc.finals[i] = 0

\* C22: a stored block, wherever it stands in the CFDATA and whatever its
\* BFINAL: the decoder skips to the next byte boundary, reads LEN and NLEN,
\* returns the LEN bytes after NLEN, and stands at the bit after the payload
\* for the next block header; it raises nothing.
C22_StoredBlockAnywhere ==
    /\ (mz_pc \in {"block", "yielded"} /\ mzStoredAt(mz_nblk)) =>
         LET data == mz_desc.blocks[mz_nblk].data
             n    == Len(mz_msblock)
         IN  /\ mz_off = Len(mzBitsThrough(mz_desc, mz_nblk))
             /\ n >= Len(data)
             /\ SubSeq(mz_msblock, n - Len(data) + 1, n) = data
    /\ (mz_pc \in {"raised", "stopped"} /\ mz_nfr > 0) => ~mzStoredAt(mz_nblk + 1)

\* the same of an empty stored block that begins the CFDATA
C22_EmptyFirst ==
    (mz_nblk = 1 /\ mzStoredAt(1) /\ mz_desc.blocks[1].data = << >>)
    => C22_StoredBlockAnywhere

-----------------------------------------------------------------------------
(* Properties of the code length sequence of a dynamic block *)

\* what the entries of a block stand for: the HLIT + HDIST lengths, or
\* "error" for a copy with nothing before it and for a run that passes the
\* end, or "short" when the entries end early
RECURSIVE refCodeLens(_, _, _, _)
refCodeLens(items, k, lens, total) ==
    IF Len(lens) = total THEN [res |-> "ok", lens |-> lens]
    ELSE IF k > Len(items) THEN [res |-> "short", lens |-> lens]
    ELSE LET it == items[k] IN
         IF it.sym < COPY_LEN
         THEN refCodeLens(items, k + 1, Append(lens, it.sym), total)
         ELSE IF it.sym = COPY_LEN /\ k = 1
         THEN [res |-> "error", lens |-> lens]
         ELSE IF Len(lens) + it.n > total
         THEN [res |-> "error", lens |-> lens]
         ELSE refCodeLens(items, k + 1,
                          lens \o [j \in 1..it.n |->
                                     IF it.sym = COPY_LEN THEN lens[Len(lens)] ELSE 0],
                          total)

\* C23: the code length sequence has exactly HLIT + HDIST entries; when the
\* loop has ended normally they are the lengths the entries stand for, and a
\* copy before any length, or a run that passes entry HLIT + HDIST, raises
\* InflateError in the loop and no tree of the block is built.
C23_CodeLengthsExact ==
    dyn_pc \notin {"idle", "new"} =>
      LET total == 257 + dyn_prog.hdist
          ref == refCodeLens(dyn_prog.items, 1, << >>, total)
      IN /\ Len(dyn_c.code_lens) = total
         /\ dyn_c.i <= total
         /\ dyn_c.res = "done" => ref.res = "ok" /\ dyn_c.code_lens = ref.lens
         /\ dyn_pc \in {"trees", "returned"} => dyn_c.res = "done"
         /\ ref.res = "error" /\ dyn_pc # "lens" =>
              dyn_pc = "raised" /\ dyn_err = "InflateError" /\ dyn_c.res = "InflateError"

\* a run that passes the end of the code lengths has raised InflateError
C23_Witness ==
    /\ dyn_pc = "raised" /\ dyn_err = "InflateError"
    /\ dyn_c.i = 257 + dyn_prog.hdist /\ dyn_c.vlen > 0
    /\ dyn_prog.items[Len(dyn_prog.items)].sym = COPY_LEN

\* the literals of the data of a block of literals
dynLiteralsOf(p) == [i \in 1..(Len(p.data) - 1) |-> 65]

\* C30: a dynamic block with HDIST = 1 whose single distance length is 0 and
\* whose data holds literals and the end of block symbol only decodes to
\* those literals, and the call raises nothing.
C30_SingleZeroDistance ==
    /\ dyn_pc \in {"returned", "raised"}
    /\ dyn_prog \in {DynLiterals(<<0>>, n) : n \in 0..MaxDynLits}
    => dyn_pc = "returned" /\ dyn_ret[1] = dynLiteralsOf(dyn_prog)

\* the same blocks with any other distance lengths decode to their literals
C30_OtherDistances ==
    /\ dyn_pc \in {"returned", "raised"}
    /\ dyn_prog \in {DynLiterals(d, n) : d \in {<<1>>, <<0, 0>>, <<1, 1>>}, n \in 0..MaxDynLits}
    => dyn_pc = "returned" /\ dyn_ret[1] = dynLiteralsOf(dyn_prog)
       /\ dyn_ret[2] = dynLiteralsOf(dyn_prog)
C30_Decoded ==
    dyn_pc = "returned" /\ Len(dyn_ret[1]) = MaxDynLits

\* every call that passed the loop over the code lengths and found no tree
\* for the distances raised AttributeError
C30_NoDistanceTree ==
    dyn_pc = "raised" /\ dyn_err = "AttributeError" =>
        dyn_c.res = "done" /\ dyn_prog.hdist = 1 /\ dyn_c.code_lens[258] = 0

-----------------------------------------------------------------------------
(* Properties of the length arrays of LZX *)

\* the entries of l that differ from those of old
lensChanged(old, l) ==
    {k \in DOMAIN old.nz \cup DOMAIN l.nz : lensAt(l, k) # lensAt(old, k)}

\* C24: after any sequence of updateLengths calls every entry of the length
\* array is in 0..16, whatever symbol follows a symbol 19.
C24_LengthsInRange ==
    upd_pc = "returned" => \A k \in DOMAIN upd_lens.nz : upd_lens.nz[k] \in 0..16

\* while every symbol 19 was followed by one of the symbols 0..16, every
\* entry is in 0..16
C24_AfterLengthSymbols ==
    (/\ upd_pc # "idle"
     /\ \A c \in 1..Len(upd_progs) : \A j \in 1..Len(upd_progs[c]) :
           upd_progs[c][j].sym = 19 => upd_progs[c][j].nsym <= 16)
    => \A k \in DOMAIN upd_lens.nz : upd_lens.nz[k] \in 1..16

\* C25: updateLengths(bits, start, stop) changes entries in [start, stop)
\* only, and the array keeps its 2000 entries, also when a run begins less
\* than its length before stop.
C25_OnlyRange ==
    upd_pc = "returned" =>
        /\ upd_lens.len = LzxLensLen
        /\ lensChanged(upd_old, upd_lens) \subseteq
               (upd_args.start .. (upd_args.stop - 1))

\* the array keeps its 2000 entries, and what changes past stop is within
\* the last run
C25_KeepsLength ==
    upd_pc \notin {"idle", "new"} =>
        /\ upd_lens.len = LzxLensLen
        /\ lensChanged(upd_old, upd_lens) \subseteq
               (upd_args.start .. (upd_c.i - 1))
        /\ upd_c.i < upd_args.stop + 51

-----------------------------------------------------------------------------
(* Properties of the block headers of LZX *)

\* decompBlock has read a block header, or has failed to
lzHeaderRead == lz_pc = "header" /\ lz_pc' \notin {"header", "stopped"}

\* C26: a block header whose type is not 1, 2 or 3, or whose length is 0,
\* makes decompBlock raise: it goes on neither to the data of the block nor
\* to another header.
C26_BadHeaderRaises ==
    [][lzHeaderRead /\ (lz_d'.btype \notin {BTYPE_VERBATIM, BTYPE_ALIGNED,
                                            BTYPE_UNCOMPRESSED}
                        \/ lz_d'.blen = 0)
       => lz_pc' = "raised"]_vars

\* a header whose type is not 1, 2 or 3 makes decompBlock raise
C26_BadTypeRaises ==
    [][lzHeaderRead /\ lz_d'.btype \notin {BTYPE_VERBATIM, BTYPE_ALIGNED,
                                           BTYPE_UNCOMPRESSED}
       => lz_pc' = "raised" /\ lz_d'.begun = FALSE]_vars

\* after an uncompressed block of length 0 the next block has been decoded
C26_ZeroLengthPassed ==
    /\ lz_pc = "yielded" /\ lz_src.k = "stream"
    /\ Len(lz_src.s.blocks) = 2 /\ lz_src.s.blocks[1].n = 0

-----------------------------------------------------------------------------
(* Properties of the match copy of LZX *)

\* the byte by byte copy: window[(p + j) mod wsize] := window[(p + j - d)
\* mod wsize] for j = 0 .. m - 1, on a window with its indices from 1
RECURSIVE refWindowCopy(_, _, _, _, _)
refWindowCopy(win, pos, d, m, j) ==
    IF j = m THEN win
    ELSE refWindowCopy([win EXCEPT ![((pos + j) % Len(win)) + 1] =
                               win[((pos + j - d + Len(win)) % Len(win)) + 1]],
                 pos, d, m, j + 1)

\* the copy is the split copy, and its second part reads what it writes
cpOverlap ==
    /\ cp_m.moff > cp_old.winpos
    /\ cp_m.mlen - (cp_m.moff - cp_old.winpos) > cp_m.moff

\* C27: a match copy of length m at offset d, 1 <= d <= wsize, leaves in the
\* window the bytes of the byte by byte copy from the write position, when
\* d <= winpos and when d > winpos, also when m > d.
C27_CopyIsReference ==
    cp_pc \in {"copied", "raised"} =>
        /\ cp_pc = "copied"
        /\ cp_o.win = WinPaged(refWindowCopy(WinFlat(cp_old.win), cp_old.winpos,
                                    cp_m.moff, cp_m.mlen, 0))

\* a copy that ends within the window and is not a split copy that reads
\* what it writes is the byte by byte copy
C27_WithoutOverlap ==
    (/\ cp_pc \in {"copied", "raised"}
     /\ cp_old.winpos + cp_m.mlen <= cp_old.wsize
     /\ ~cpOverlap)
    => C27_CopyIsReference
C27_SplitSeen ==
    /\ cp_pc = "copied" /\ cp_m.moff > cp_old.winpos /\ ~cpOverlap
    /\ cp_m.mlen > cp_m.moff - cp_old.winpos
    /\ cp_o.win # cp_old.win
C27_OverlapSeen ==
    cp_pc = "copied" /\ cp_m.moff <= cp_old.winpos /\ cp_m.mlen > cp_m.moff

-----------------------------------------------------------------------------
(* Properties of the x86 post-processing of LZX *)

\* the call bytes of a frame of n bytes that are translated when none of
\* the last ten bytes is: those before the last ten bytes that are five
\* bytes or more after the one before
RECURSIVE refMarkers(_, _, _, _)
refMarkers(indices, n, l, markers) ==
    IF {j \in indices : j >= l} = {} THEN markers
    ELSE LET m == CHOOSE j \in indices : j >= l /\ \A k \in indices : k >= l => j <= k
         IN  IF (markers = << >> \/ m - markers[Len(markers)] >= 5) /\ m < n - 10
             THEN refMarkers(indices, n, m + 1, Append(markers, m))
             ELSE refMarkers(indices, n, m + 1, markers)

\* decompBlock has given a frame of an uncompressed block to _postProcess,
\* which has returned it or has raised
lzPostProcessed ==
    /\ lz_src.k = "stream" /\ lz_d.btype = BTYPE_UNCOMPRESSED /\ lz_d.begun
    /\ \/ lz_pc = "yielded"
       \/ /\ lz_pc = "raised" /\ lz_err = "IndexError" /\ lz_o.ifs # 0
          /\ lz_d.wrote > lz_d.yld
          /\ PagedLen(lz_d.out) = LZX_FRAME_SIZE \/ lz_d.flen = lz_o.rawcb

\* C28: the x86 post-processing translates no 0xE8 within the last ten bytes
\* of the frame it is given and reads and writes no index outside the
\* frame, whatever the frame holds, also when its first 0xE8 is within its
\* last four bytes; with ifs = 0 the frame is returned as it is.
C28_LastTenBytes ==
    lzPostProcessed =>
       LET raw == Flat(lz_d.out)
           fix == Flat(lz_ret)
           icp0 == lz_o.icp - Len(raw)
           ms == refMarkers({i \in 0..(Len(raw) - 1) : raw[i + 1] = INSTR_CALL},
                            Len(raw), 0, << >>)
       IN  /\ lz_pc = "yielded"
           /\ Len(fix) = Len(raw)
           /\ lz_o.ifs = 0 => fix = raw
           /\ lz_o.ifs # 0 =>
                \A k \in 0..(Len(raw) - 1) :
                   fix[k + 1] = lzTranslated(raw, icp0, lz_o.ifs, ms, k)

\* with ifs = 0 every frame is returned as it is
C28_FlagClear ==
    (lz_pc = "yielded" /\ lz_src.k = "stream" /\ lzInUncomp /\ lz_o.ifs = 0)
    => lz_ret = lz_d.out

\* the frames whose first 0xE8 is before the last ten bytes
C28_FirstCallEarly ==
    (/\ lzPostProcessed
     /\ \A i \in (PagedLen(lz_d.out) - 9)..PagedLen(lz_d.out) :
          i >= 1 /\ PagedAt(lz_d.out, i) = INSTR_CALL =>
             \E j \in 1..(i - 1) : PagedAt(lz_d.out, j) = INSTR_CALL)
    => C28_LastTenBytes
\* _postProcess has raised IndexError on a frame with a call byte in its
\* last four bytes
C28_Raised ==
    /\ lzPostProcessed /\ lz_pc = "raised"
    /\ PagedLen(lz_d.out) = 20 /\ PagedAt(lz_d.out, 18) = INSTR_CALL
C28_Translated ==
    /\ lz_pc = "yielded" /\ lz_src.k = "stream" /\ lz_o.ifs = 16
    /\ PagedLen(lz_ret) = 20 /\ PagedAt(lz_d.out, 13) = INSTR_CALL
    /\ lz_ret # lz_d.out

-----------------------------------------------------------------------------
(* Properties of setContent on a chain that is longer than the data *)

\* this step is a setContent(p, v) that returned, on a chain of more
\* clusters than v needs
fatShrunk ==
    /\ fat_hist' # fat_hist
    /\ fat_ret'[1].op = "set" /\ fat_ret'[1].res = "ok"
    /\ Len(popLast(getClusterChain(fat_fs, fat_ret'[1].p).chain))
         > fatNeeded(fat_hist'[Len(fat_hist')].n)

\* C29: setContent on a chain that is longer than the new data needs leaves
\* every cluster of the old chain beyond the first ceil(len(data) /
\* cluster_size), one for empty data, UNUSED in the allocation table.
C29_ExtraClustersFreed ==
    [][fatShrunk =>
         LET old == popLast(getClusterChain(fat_fs, fat_ret'[1].p).chain)
         IN  \A j \in (fatNeeded(fat_hist'[Len(fat_hist')].n) + 1)..Len(old) :
                getFatEntry(fat_fs', old[j]) = CLUSTER_TYPES_UNUSED]_vars

\* the chain itself is cut to the clusters the data needs, the first ones
\* of the old chain
C29_ChainIsCut ==
    [][fatShrunk =>
         LET old == popLast(getClusterChain(fat_fs, fat_ret'[1].p).chain)
             new == popLast(getClusterChain(fat_fs', fat_ret'[1].p).chain)
             needed == fatNeeded(fat_hist'[Len(fat_hist')].n)
         IN  /\ new = SubSeq(old, 1, needed)
             /\ \A j \in (needed + 1)..(Len(old) - 1) :
                    j # needed + 1 => getFatEntry(fat_fs', old[j]) = CLUSTER_TYPES_UNUSED
             /\ getFatEntry(fat_fs', old[Len(old)]) = CLUSTER_TYPES_LAST]_vars

\* no cluster after that of the root directory is in use without being in
\* the chain of a file
C29_NoLostCluster ==
    fat_pc = "live" =>
      \A k \in 3..(total_cluster_count(fat_fs) - 1) :
         ~isClusterFree(fat_fs, k) =>
            \E p \in DOMAIN fat_want :
               \E j \in 1..Len(getClusterChain(fat_fs, p).chain) :
                  getClusterChain(fat_fs, p).chain[j] = k

=============================================================================
